---- MODULE Spec2Model ----
(***************************************************************************)
(* Progressive wallpaper loading of the wallpaper store                    *)
(* (src/src/stores/wallpaper.js): the two caches, the loader state and the *)
(* asynchronous calls of initSeries / loadRemainingCategories, one action  *)
(* per synchronous stretch between two awaits (Spec); what the loaders     *)
(* make of one fetched document and decodeDataWithWorker (SpecDoc); the    *)
(* two cache layers called on their own (SpecKey); the useWallpapers       *)
(* composable with preloadWallpapers (SpecComposable); and the store with  *)
(* every await settling, for termination (SpecFair).                       *)
(***************************************************************************)
EXTENDS Integers, Sequences, FiniteSets, TLC

\* ------------------------------------------------------------------ bounds
MaxCalls == 2       \* calls of initSeries made by the UI
MaxFaults == 1      \* fetches that fail or manifests that do not decode
MaxClears == 1      \* calls of clearCache
FirstCats == 5      \* categories in the manifest of the first series
SecondCats == 2     \* categories in the manifest of the second series
ItemsPerCat == 2    \* items in every category shard
MaxFetchCalls == 2  \* calls of fetchWallpapers and preloadWallpapers
MaxVersion == 1     \* times the server replaces its documents
MaxCallers == 3     \* direct calls of loadCategory and loadSeriesIndex

\* ------------------------------------------------------- program constants
INITIAL_WINDOW == 3
BATCH_SIZE == 3

\* ------------------------------------------------------------- remote data
\* Series ids and category files are strings; Chars gives their characters,
\* so that the cache key and its prefix test are computed as the code does.
Chars ==
  [x \in {"a", "av", "t", "f1", "f2", "f3", "f4", "f5", "f6", "f7"} |->
     CASE x = "a" -> <<"a">>
       [] x = "av" -> <<"a", "v">>
       [] x = "t" -> <<"t">>
       [] OTHER -> <<x>>]

SERIES_CONFIG == {"a", "av"}
SeriesIds == SERIES_CONFIG \cup {"t"}

FirstFiles == <<"f1", "f2", "f3", "f4", "f5", "f6", "f7">>
SecondFiles == <<"f4", "f5", "f1", "f6", "f2", "f7", "f3">>

Min(S) == CHOOSE x \in S : \A y \in S : x <= y

RemoteCategories(seriesId) ==
  IF seriesId = "a"
  THEN SubSeq(FirstFiles, 1, Min({FirstCats, Len(FirstFiles)}))
  ELSE SubSeq(SecondFiles, 1, Min({SecondCats, Len(SecondFiles)}))

\* the decoded manifest of a series, and the raw document kept when the
\* blob does not decode (it has no categories field)
DecodedIndex(seriesId) ==
  [series |-> seriesId, hasCategories |-> TRUE, categories |-> RemoteCategories(seriesId)]
RawIndex(seriesId) ==
  [series |-> seriesId, hasCategories |-> FALSE, categories |-> <<>>]
NoIndex == [series |-> "", hasCategories |-> FALSE, categories |-> <<>>]

\* error.value
NoError == "null"
ErrInvalidSeries == "Invalid series"
ErrHttp == "HTTP error"
ErrType == "Cannot read properties of undefined"

\* ----------------------------------------------------------------- helpers
\* Array.prototype.slice(from, to) on 0-based indices
Slice(s, from, to) == SubSeq(s, from + 1, Min({to, Len(s)}))

RECURSIVE Flat(_)
Flat(ss) == IF ss = <<>> THEN <<>> ELSE Head(ss) \o Flat(Tail(ss))

Range(s) == {s[j] : j \in 1..Len(s)}

CacheKey(seriesId, categoryFile) == Chars[seriesId] \o <<":">> \o Chars[categoryFile]

StartsWith(key, prefix) ==
  /\ Len(prefix) <= Len(key)
  /\ SubSeq(key, 1, Len(prefix)) = prefix

Put(cache, key, value) ==
  [k \in DOMAIN cache \cup {key} |-> IF k = key THEN value ELSE cache[k]]
Delete(cache, keys) == [k \in DOMAIN cache \ keys |-> cache[k]]
EmptyCache == [k \in {} |-> <<>>]

\* ------------------------------------------------- documents and items
\* JSON values of an item's URL fields: missing, null, or a string given by
\* its parts (the empty string has none)
Absent == [type |-> "undefined", parts |-> <<>>]
Null == [type |-> "null", parts |-> <<>>]
Str(parts) == [type |-> "string", parts |-> parts]
EmptyStr == Str(<<>>)

\* JavaScript truthiness and a || b on these values
Truthy(v) == v.type = "string" /\ v.parts # <<>>
Or(a, b) == IF Truthy(a) THEN a ELSE b

\* buildImageUrl(path) of @/utils/format: the asset base joined to the path
BuildImageUrl(path) == Str(<<"base">> \o path.parts)

\* transformWallpaperUrls with the empty string where no preview exists
TransformWallpaperUrlsPreviewEmpty(w) ==
  [w EXCEPT
     !.url = IF Truthy(w.path) THEN BuildImageUrl(w.path) ELSE Or(w.url, EmptyStr),
     !.thumbnailUrl = IF Truthy(w.thumbnailPath) THEN BuildImageUrl(w.thumbnailPath)
                      ELSE Or(w.thumbnailUrl, EmptyStr),
     !.previewUrl = IF Truthy(w.previewPath) THEN BuildImageUrl(w.previewPath)
                    ELSE Or(w.previewUrl, EmptyStr),
     !.downloadUrl = IF Truthy(w.path) THEN BuildImageUrl(w.path)
                     ELSE Or(w.downloadUrl, EmptyStr)]

\* transformWallpaperUrls of the store
TransformWallpaperUrls(w) ==
  [w EXCEPT
     !.url = IF Truthy(w.path) THEN BuildImageUrl(w.path) ELSE Or(w.url, EmptyStr),
     !.thumbnailUrl = IF Truthy(w.thumbnailPath) THEN BuildImageUrl(w.thumbnailPath)
                      ELSE Or(w.thumbnailUrl, EmptyStr),
     !.previewUrl = IF Truthy(w.previewPath) THEN BuildImageUrl(w.previewPath)
                    ELSE Or(w.previewUrl, Null),
     !.downloadUrl = IF Truthy(w.path) THEN BuildImageUrl(w.path)
                     ELSE Or(w.downloadUrl, EmptyStr)]

\* transformWallpaperUrls of the composable
LegacyTransformWallpaperUrls(w) ==
  [w EXCEPT
     !.url = IF Truthy(w.path) THEN BuildImageUrl(w.path) ELSE EmptyStr,
     !.thumbnailUrl = IF Truthy(w.thumbnailPath) THEN BuildImageUrl(w.thumbnailPath)
                      ELSE EmptyStr,
     !.previewUrl = IF Truthy(w.previewPath) THEN BuildImageUrl(w.previewPath)
                    ELSE Null,
     !.downloadUrl = IF Truthy(w.path) THEN BuildImageUrl(w.path) ELSE EmptyStr]

\* the map callback of fetchWallpapers in the composable
LegacyMapItem(w) ==
  IF Truthy(w.url) /\ Truthy(w.thumbnailUrl)
  THEN w
  ELSE LegacyTransformWallpaperUrls(w)

\* A fetched document: what its blob (data.blob || data.payload) decodes to,
\* and its plain data.wallpapers field. Every list in it holds the one item.
BlobKinds == {"none", "throws", "list", "wrapped", "null", "object", "number"}
PlainKinds == {"absent", "list", "object"}

\* an item carries each path or not, and each URL field as a string, as the
\* empty string or not at all
Items ==
  [path : {Absent, Str(<<"path">>)},
   thumbnailPath : {Absent, Str(<<"thumbnailPath">>)},
   previewPath : {Absent, Str(<<"previewPath">>)},
   url : {Absent, EmptyStr, Str(<<"url">>)},
   thumbnailUrl : {Absent, EmptyStr, Str(<<"thumbnailUrl">>)},
   previewUrl : {Absent, EmptyStr, Str(<<"previewUrl">>)},
   downloadUrl : {Absent, EmptyStr, Str(<<"downloadUrl">>)}]

Docs == [blob : BlobKinds, plain : PlainKinds, item : Items]

NoDoc ==
  [blob |-> "none", plain |-> "absent",
   item |-> [path |-> Absent, thumbnailPath |-> Absent, previewPath |-> Absent,
             url |-> Absent, thumbnailUrl |-> Absent, previewUrl |-> Absent,
             downloadUrl |-> Absent]]

\* the outcome of a call: pending, resolved with a list, or rejected
NoResult == [state |-> "none", by |-> "", list |-> <<>>]
Resolved(by, list) == [state |-> "resolved", by |-> by, list |-> list]
RejectedWith(by) == [state |-> "rejected", by |-> by, list |-> <<>>]

\* data.wallpapers || []
PlainOrEmpty(d) ==
  CASE d.plain = "absent" -> [array |-> TRUE, items |-> <<>>]
    [] d.plain = "list" -> [array |-> TRUE, items |-> <<d.item>>]
    [] d.plain = "object" -> [array |-> FALSE, items |-> <<>>]

\* wallpaperList of loadCategory: decoded.wallpapers || decoded, or the
\* fallback when there is no blob, the decoder throws, or reading
\* .wallpapers of null throws inside the inner try
WallpaperList(d) ==
  CASE d.blob \in {"none", "throws", "null"} -> PlainOrEmpty(d)
    [] d.blob \in {"list", "wrapped"} -> [array |-> TRUE, items |-> <<d.item>>]
    [] d.blob \in {"object", "number"} -> [array |-> FALSE, items |-> <<>>]

\* wallpaperList.map(w => transformWallpaperUrls(w))
TransformAll(items) == [j \in 1..Len(items) |-> TransformWallpaperUrls(items[j])]

\* wallpaperList.map of the composable
LegacyMapAll(items) == [j \in 1..Len(items) |-> LegacyMapItem(items[j])]

\* loadCategory after response.json(): the list is mapped and returned; a
\* wallpaperList without map throws, and the outer catch rethrows
LoadCategoryBody(d) ==
  IF WallpaperList(d).array
  THEN Resolved("loadCategory", TransformAll(WallpaperList(d).items))
  ELSE RejectedWith("loadCategory")

\* fetchWallpapers of the composable after response.json(): data.wallpapers
\* || data is mapped; a throw is caught and leaves the empty list
FetchWallpapersBody(d) ==
  IF d.plain = "list"
  THEN Resolved("fetchWallpapers", LegacyMapAll(<<d.item>>))
  ELSE Resolved("fetchWallpapers", <<>>)

\* decodeDataWithWorker uses the worker for payloads longer than this
WORKER_THRESHOLD == 1000
EncodedLengths == {1, WORKER_THRESHOLD, WORKER_THRESHOLD + 1}

\* One call of decodeDataWithWorker(encoded): what isWorkerAvailable()
\* answers, encoded.length, how workerDecodeAndParse settles and whether
\* decodeData and JSON.parse return or throw; where the call stands, the
\* attempts it has made and which path gave the value it resolved with.
Decodings ==
  [available : BOOLEAN, length : EncodedLengths,
   worker : {"ok", "rejects"}, sync : {"ok", "throws"},
   pc : {"called"}, workerAttempts : {0}, syncAttempts : {0}, value : {"none"}]

NoDecoding ==
  [available |-> FALSE, length |-> 1, worker |-> "ok", sync |-> "ok",
   pc |-> "none", workerAttempts |-> 0, syncAttempts |-> 0, value |-> "none"]

\* the condition under which the worker is tried at or above the threshold
UseWorkerAtThreshold(d) == d.available /\ d.length >= WORKER_THRESHOLD
\* isWorkerAvailable() && encoded.length > 1000
UseWorker(d) == d.available /\ d.length > WORKER_THRESHOLD

\* decodeData(encoded) then JSON.parse(jsonStr), in the calling context: a
\* throw rejects the call
SyncDecode(d) ==
  [d EXCEPT !.syncAttempts = @ + 1,
            !.pc = IF d.sync = "ok" THEN "resolved" ELSE "rejected",
            !.value = IF d.sync = "ok" THEN "sync" ELSE "none"]

VARIABLES
  seriesIndexCache,      \* series id -> manifest
  categoryCache,         \* cache key -> item list
  wallpapers,
  currentLoadedSeries,
  loadedCategories,
  loading,
  error,
  isBackgroundLoading,
  initialLoadedCount,
  task,                  \* the calls of initSeries and the loaders they start
  ncalls,
  inflight,              \* category fetches on the network
  faults,
  clears,
  last,                  \* the stretch that ran last: its name and its call
  emptyShards,           \* category files whose shard holds no item
  doc,                   \* a fetched document handed to a loader
  result,                \* what the loader made of it
  decoding,              \* a call of decodeDataWithWorker
  composableFile,        \* the file the composable is imported from
  seriesCache,           \* series id -> whole list of the series
  categoryIndexCache,    \* series id -> manifest
  categoryDataCache,     \* <<series id, category file>> -> item list
  composable,            \* wallpapers, currentLoadedSeries, loading, error
  calls,                 \* the calls of fetchWallpapers and preloadWallpapers
  remote                 \* what the server holds at this moment

cacheVars == <<seriesIndexCache, categoryCache>>
storeVars == <<wallpapers, currentLoadedSeries, loadedCategories, loading, error,
               isBackgroundLoading, initialLoadedCount>>
vars == <<seriesIndexCache, categoryCache, wallpapers, currentLoadedSeries,
          loadedCategories, loading, error, isBackgroundLoading, initialLoadedCount,
          task, ncalls, inflight, faults, clears, last, emptyShards, doc, result,
          decoding, composableFile, seriesCache, categoryIndexCache,
          categoryDataCache, composable, calls, remote>>
\* what no call of the store writes: the remote data
remoteVars == <<emptyShards>>
docVars == <<doc, result, decoding>>
composableVars == <<composableFile, seriesCache, categoryIndexCache, categoryDataCache,
                    composable, calls, remote>>

\* the decoded, URL-transformed list of one category shard
CategoryItems(seriesId, categoryFile) ==
  IF categoryFile \in emptyShards
  THEN <<>>
  ELSE [n \in 1..ItemsPerCat |-> <<seriesId, categoryFile, n>>]

NewTask ==
  [kind |-> "init", pc |-> "new", series |-> "", force |-> FALSE, settled |-> "pending",
   index |-> NoIndex, err |-> NoError, gen |-> 0, cats |-> <<>>, batch |-> 0,
   slots |-> <<>>, reordered |-> FALSE]

\* a call that has returned (its promise is fulfilled) and runs no loader:
\* its locals are gone
Ended(t, outcome) ==
  [NewTask EXCEPT !.kind = t.kind, !.pc = outcome, !.series = t.series,
                  !.force = t.force, !.settled = "fulfilled"]

\* the loader of t has run lines 321-322: a loader started by initSeries is
\* awaited by nobody, loadAllCategories awaits its own (line 345)
LoaderEnd(t) ==
  IF t.kind = "all"
  THEN [Ended(t, "allEnd") EXCEPT !.settled = "pending"]
  ELSE Ended(t, "done")

\* ---------------------------------------------------------- the composable
\* useWallpapers: the composable next to the store in wallpaper.js, which
\* loads through preloadWallpapers, and the one of useWallpapers.js, which
\* fetches the whole document of a series itself.
ComposableFiles == {"wallpaper.js", "useWallpapers.js"}
\* the series ids the composable is called with: a configured one and an
\* unknown one
ComposableSeries == {"av", "t"}

\* what the server answers at a version of its documents: the list of a
\* category shard, the whole list of a series (dataUrl), the manifest
ShardItems(seriesId, categoryFile, version) ==
  <<[series |-> seriesId, file |-> categoryFile, version |-> version]>>
DataItems(seriesId, version) ==
  <<[series |-> seriesId, file |-> "data", version |-> version]>>
RemoteManifest(seriesId) ==
  IF remote.manifestOk THEN DecodedIndex(seriesId) ELSE RawIndex(seriesId)

ComposableConstructed(file) ==
  /\ composableFile = file
  /\ seriesCache = EmptyCache
  /\ categoryIndexCache = EmptyCache
  /\ categoryDataCache = EmptyCache
  /\ composable = [wallpapers |-> <<>>, currentLoadedSeries |-> "",
                   loading |-> (file = "wallpaper.js"), error |-> NoError]
  /\ calls = <<>>

\* the module-level state of the composable as one value, so that the
\* stretches of a call that run without an await in between compose
World ==
  [calls |-> calls, composable |-> composable, seriesCache |-> seriesCache,
   categoryIndexCache |-> categoryIndexCache, categoryDataCache |-> categoryDataCache]
Becomes(w) ==
  /\ calls' = w.calls
  /\ composable' = w.composable
  /\ seriesCache' = w.seriesCache
  /\ categoryIndexCache' = w.categoryIndexCache
  /\ categoryDataCache' = w.categoryDataCache

NewCall(via, seriesId, forceRefresh, useLegacyMode) ==
  [via |-> via, series |-> seriesId, force |-> forceRefresh, legacyMode |-> useLegacyMode,
   pc |-> "new", files |-> <<>>, slots |-> <<>>, legacyUsed |-> FALSE,
   failure |-> "none", fetched |-> 0, hit |-> FALSE, ok |-> FALSE, value |-> <<>>]

\* a call is over. preloadWallpapers resolves or rejects; fetchWallpapers,
\* which awaited it, takes the list or the error and clears loading
Settle(w, i, ok, list, message) ==
  LET t == w.calls[i]
  IN [w EXCEPT
        !.calls[i] = [t EXCEPT !.pc = IF t.via = "fetchWallpapers" THEN "returned"
                                      ELSE IF ok THEN "resolved" ELSE "rejected",
                               !.ok = ok, !.value = list],
        !.composable =
          IF t.via # "fetchWallpapers" THEN @
          ELSE IF ok
          THEN [@ EXCEPT !.wallpapers = list, !.currentLoadedSeries = t.series,
                         !.loading = FALSE]
          ELSE [@ EXCEPT !.error = message, !.wallpapers = <<>>, !.loading = FALSE]]

\* fetch(seriesConfig.dataUrl) of preloadWallpapers: the whole-document path
StartLegacy(w, i, failure) ==
  [w EXCEPT !.calls[i] = [@ EXCEPT !.pc = "dataFetch", !.legacyUsed = TRUE,
                                   !.failure = failure, !.fetched = @ + 1]]

AllShardsIn(slots) == \A j \in 1..Len(slots) : slots[j].state \in {"cached", "done"}

\* Promise.all has resolved: the lists are flattened, cached and returned
MergeShards(w, i) ==
  LET t == w.calls[i]
      allWallpapers == Flat([j \in 1..Len(t.slots) |-> t.slots[j].items])
  IN Settle([w EXCEPT !.seriesCache = Put(@, t.series, allWallpapers)],
            i, TRUE, allWallpapers, NoError)

\* preloadWallpapers after loadCategoryIndex returned indexData: a manifest
\* without a categories list makes .map throw, which the inner catch takes;
\* else loadCategoryData is called for every file, cached or fetched
AfterIndex(w, i, indexData) ==
  IF ~indexData.hasCategories
  THEN StartLegacy(w, i, "structural")
  ELSE LET t == w.calls[i]
           files == indexData.categories
           slots == [j \in 1..Len(files) |->
                       IF <<t.series, files[j]>> \in DOMAIN w.categoryDataCache
                       THEN [state |-> "cached",
                             items |-> w.categoryDataCache[<<t.series, files[j]>>]]
                       ELSE [state |-> "pending", items |-> <<>>]]
           w1 == [w EXCEPT !.calls[i] =
                    [@ EXCEPT !.pc = "categories", !.files = files, !.slots = slots,
                              !.fetched = @ + Cardinality({j \in 1..Len(files) :
                                                             slots[j].state = "pending"})]]
       IN IF AllShardsIn(slots) THEN MergeShards(w1, i) ELSE w1

\* preloadWallpapers up to its first fetch
PreloadWallpapersStart(w, i) ==
  LET t == w.calls[i]
  IN IF t.series \in DOMAIN w.seriesCache
     THEN Settle([w EXCEPT !.calls[i].hit = TRUE], i, TRUE, w.seriesCache[t.series],
                 NoError)
     ELSE IF t.series \notin SERIES_CONFIG
     THEN Settle(w, i, FALSE, <<>>, ErrInvalidSeries)
     ELSE IF t.legacyMode
     THEN StartLegacy(w, i, "none")
     ELSE IF t.series \in DOMAIN w.categoryIndexCache
     THEN AfterIndex(w, i, w.categoryIndexCache[t.series])
     ELSE [w EXCEPT !.calls[i] = [@ EXCEPT !.pc = "indexFetch", !.fetched = @ + 1]]

StoreConstructed ==
  /\ seriesIndexCache = EmptyCache
  /\ categoryCache = EmptyCache
  /\ wallpapers = <<>>
  /\ currentLoadedSeries = ""
  /\ loadedCategories = {}
  /\ loading = FALSE
  /\ error = NoError
  /\ isBackgroundLoading = FALSE
  /\ initialLoadedCount = 0
  /\ task = [i \in 1..MaxCalls |-> NewTask]
  /\ ncalls = 0
  /\ inflight = {}
  /\ faults = 0
  /\ clears = 0
  /\ last = [op |-> "none", call |-> 0, arg |-> ""]

Init ==
  /\ StoreConstructed
  /\ emptyShards \in {{}, Range(Slice(FirstFiles, 0, INITIAL_WINDOW))}
  /\ doc = NoDoc
  /\ result = NoResult
  /\ decoding = NoDecoding
  /\ ComposableConstructed("wallpaper.js")
  /\ remote = [version |-> 0, manifestOk |-> TRUE]

\* ------------------------------------------------------------- getters
\* the total shown by the UI (lines 49-55)
DisplayTotalLive == Len(wallpapers)
displayTotal ==
  IF isBackgroundLoading /\ initialLoadedCount > 0
  THEN initialLoadedCount
  ELSE Len(wallpapers)

\* an item is identified by its id: series, category file and number
NoWallpaper == <<>>

\* wallpapers.findIndex(w => w.id === id): the first position, counted from
\* 0, or -1 (lines 362-364)
getWallpaperIndex(id) ==
  LET hits == {j \in 1..Len(wallpapers) : wallpapers[j] = id}
  IN IF hits = {} THEN -1 ELSE Min(hits) - 1

\* wallpapers[k] of JavaScript, for k >= 0
At(k) == wallpapers[k + 1]

\* lines 369-375
getPrevWallpaper(currentId) ==
  LET index == getWallpaperIndex(currentId)
  IN IF index > 0 THEN At(index - 1) ELSE NoWallpaper

\* lines 380-386
getNextWallpaper(currentId) ==
  LET index == getWallpaperIndex(currentId)
  IN IF index < Len(wallpapers) - 1 THEN At(index + 1) ELSE NoWallpaper

\* ------------------------------------------------------- the cache layers
\* loadSeriesIndex up to its first await: a cache hit returns the cached
\* manifest, an unknown series throws, anything else starts the fetch.
IndexCached(seriesId) == seriesIndexCache[seriesId]

LoadSeriesIndexStartNoCache(seriesId) ==
  IF seriesId \notin SERIES_CONFIG
  THEN [pc |-> "indexErr", index |-> NoIndex, err |-> ErrInvalidSeries]
  ELSE [pc |-> "indexFetch", index |-> NoIndex, err |-> NoError]
LoadSeriesIndexStart(seriesId) ==
  IF seriesId \in DOMAIN seriesIndexCache
  THEN [pc |-> "indexOk", index |-> IndexCached(seriesId), err |-> NoError]
  ELSE IF seriesId \notin SERIES_CONFIG
  THEN [pc |-> "indexErr", index |-> NoIndex, err |-> ErrInvalidSeries]
  ELSE [pc |-> "indexFetch", index |-> NoIndex, err |-> NoError]

\* loadCategory up to its first await, for the call in slot j of a window
\* or batch: a cache hit settles the slot at once, otherwise a fetch starts.
CategoryHitNever(seriesId, categoryFile) == FALSE
CategoryHit(seriesId, categoryFile) ==
  CacheKey(seriesId, categoryFile) \in DOMAIN categoryCache

\* loadCategory that also answers without a fetch of its own when a fetch
\* of the key is already in flight
LoadCategoryStartSingleFlight(seriesId, categoryFile) ==
  IF \/ CategoryHit(seriesId, categoryFile)
     \/ \E c \in inflight : c.series = seriesId /\ c.file = categoryFile
  THEN [file |-> categoryFile, st |-> "ok", val |-> <<>>]
  ELSE IF seriesId \notin SERIES_CONFIG
  THEN [file |-> categoryFile, st |-> "err", val |-> <<>>]
  ELSE [file |-> categoryFile, st |-> "pending", val |-> <<>>]

LoadCategoryStart(seriesId, categoryFile) ==
  IF CategoryHit(seriesId, categoryFile)
  THEN [file |-> categoryFile, st |-> "ok",
        val |-> categoryCache[CacheKey(seriesId, categoryFile)]]
  ELSE IF seriesId \notin SERIES_CONFIG
  THEN [file |-> categoryFile, st |-> "err", val |-> <<>>]
  ELSE [file |-> categoryFile, st |-> "pending", val |-> <<>>]

\* files.map(cat => loadCategory(seriesId, cat.file)) for call i, dispatch g
Dispatch(i, g, seriesId, files) ==
  LET slots == [j \in 1..Len(files) |-> LoadCategoryStart(seriesId, files[j])]
  IN [slots |-> slots,
      calls |-> {[owner |-> i, gen |-> g, slot |-> j, series |-> seriesId,
                  file |-> files[j]] : j \in {k \in 1..Len(files) : slots[k].st = "pending"}}]

\* ---------------------------------------------------------- the event loop
\* A call whose awaited promise has settled continues in a microtask; the
\* network and the timers deliver their events (macrotasks) only when no
\* microtask is left. Calls made by the UI may come at any moment.
AllOk(slots) == \A j \in 1..Len(slots) : slots[j].st = "ok"
SomeErr(slots) == \E j \in 1..Len(slots) : slots[j].st = "err"
SlotFiles(slots) == {slots[j].file : j \in 1..Len(slots)}

MicrotaskPending(t) ==
  \/ t.pc \in {"indexOk", "indexErr", "allEnd"}
  \/ t.pc \in {"window", "batch"} /\ (AllOk(t.slots) \/ SomeErr(t.slots))

EventLoopIdle == \A i \in DOMAIN task : ~MicrotaskPending(task[i])

\* Promise.all(...) then .flat(): the results in the order of the calls
MergeResultsReversed(slots) == Flat([j \in 1..Len(slots) |-> slots[Len(slots) + 1 - j].val])
MergeResults(slots) == Flat([j \in 1..Len(slots) |-> slots[j].val])

\* ------------------------------------------------ loadRemainingCategories
NumBatches(cats) == (Len(cats) + BATCH_SIZE - 1) \div BATCH_SIZE
Batch(cats, b) == Slice(cats, (b - 1) * BATCH_SIZE, b * BATCH_SIZE)
UnloadedBatch(cats, b, loaded) == SelectSeq(Batch(cats, b), LAMBDA f : f \notin loaded)

\* the first batch from b on that still has an unloaded category, 0 if none
NextBatch(cats, b, loaded) ==
  LET bs == {k \in b..NumBatches(cats) : UnloadedBatch(cats, k, loaded) # <<>>}
  IN IF bs = {} THEN 0 ELSE Min(bs)

LoaderRunKeepsCount(i, t, cats, b, wp, loaded, bg, count) ==
  LET nb == NextBatch(cats, b, loaded)
      d == Dispatch(i, t.gen + 1, t.series, UnloadedBatch(cats, nb, loaded))
  IN /\ wallpapers' = wp
     /\ loadedCategories' = loaded
     /\ IF nb = 0
        THEN /\ isBackgroundLoading' = FALSE
             /\ initialLoadedCount' = count
             /\ task' = [task EXCEPT ![i] = LoaderEnd(t)]
             /\ inflight' = inflight
        ELSE /\ isBackgroundLoading' = bg
             /\ initialLoadedCount' = count
             /\ task' = [task EXCEPT ![i] = [t EXCEPT !.pc = "batch", !.cats = cats,
                                               !.index = NoIndex,
                                               !.settled = IF t.kind = "all"
                                                           THEN "pending"
                                                           ELSE "fulfilled",
                                               !.batch = nb, !.gen = t.gen + 1,
                                               !.slots = d.slots,
                                               !.reordered = FALSE]]
             /\ inflight' = inflight \cup d.calls
\* The loader of call i runs its for-loop from batch b until its next await
\* (a batch is dispatched) or its end (the bookkeeping of lines 320-322).
\* wp and loaded are the list and the loaded set as the stretch left them;
\* bg and count are the values of isBackgroundLoading and initialLoadedCount
\* if the loader does not end here.
LoaderRun(i, t, cats, b, wp, loaded, bg, count) ==
  LET nb == NextBatch(cats, b, loaded)
      d == Dispatch(i, t.gen + 1, t.series, UnloadedBatch(cats, nb, loaded))
  IN /\ wallpapers' = wp
     /\ loadedCategories' = loaded
     /\ IF nb = 0
        THEN /\ isBackgroundLoading' = FALSE
             /\ initialLoadedCount' = Len(wp)
             /\ task' = [task EXCEPT ![i] = LoaderEnd(t)]
             /\ inflight' = inflight
        ELSE /\ isBackgroundLoading' = bg
             /\ initialLoadedCount' = count
             /\ task' = [task EXCEPT ![i] = [t EXCEPT !.pc = "batch", !.cats = cats,
                                               !.index = NoIndex,
                                               !.settled = IF t.kind = "all"
                                                           THEN "pending"
                                                           ELSE "fulfilled",
                                               !.batch = nb, !.gen = t.gen + 1,
                                               !.slots = d.slots,
                                               !.reordered = FALSE]]
             /\ inflight' = inflight \cup d.calls

\* -------------------------------------------------------------- initSeries
IsSameSeriesLoadedInverted(seriesId, forceRefresh) ==
  /\ forceRefresh
  /\ currentLoadedSeries = seriesId
  /\ Len(wallpapers) > 0
IsSameSeriesLoadedAnyList(seriesId, forceRefresh) ==
  /\ ~forceRefresh
  /\ currentLoadedSeries = seriesId
IsSameSeriesLoaded(seriesId, forceRefresh) ==
  /\ ~forceRefresh
  /\ currentLoadedSeries = seriesId
  /\ Len(wallpapers) > 0

\* initSeries(seriesId, forceRefresh) up to its first await (lines 227-242)
CallInit(seriesId, forceRefresh) ==
  /\ last' = [op |-> "CallInit", call |-> ncalls + 1, arg |-> seriesId]
  /\ UNCHANGED <<remoteVars, docVars, composableVars>>
  /\ ncalls < MaxCalls
  /\ ncalls' = ncalls + 1
  /\ LET i == ncalls + 1
         r == LoadSeriesIndexStart(seriesId)
     IN IF IsSameSeriesLoaded(seriesId, forceRefresh)
        THEN /\ task' = [task EXCEPT ![i] = [NewTask EXCEPT !.pc = "skipped",
                            !.series = seriesId, !.force = forceRefresh,
                            !.settled = "fulfilled"]]
             /\ UNCHANGED storeVars
        ELSE /\ loading' = TRUE
             /\ error' = NoError
             /\ currentLoadedSeries' = seriesId
             /\ loadedCategories' = {}
             /\ isBackgroundLoading' = FALSE
             /\ initialLoadedCount' = 0
             /\ wallpapers' = wallpapers
             /\ task' = [task EXCEPT ![i] = [NewTask EXCEPT !.pc = r.pc,
                            !.series = seriesId, !.force = forceRefresh,
                            !.index = r.index, !.err = r.err]]
  /\ UNCHANGED <<cacheVars, inflight, faults, clears>>

\* the manifest fetch of call i settles (lines 128-166)
IndexFetchOk(i) ==
  /\ EventLoopIdle
  /\ last' = [op |-> "IndexFetchOk", call |-> i, arg |-> ""]
  /\ UNCHANGED <<remoteVars, docVars, composableVars>>
  /\ task[i].pc = "indexFetch"
  /\ seriesIndexCache' = Put(seriesIndexCache, task[i].series, DecodedIndex(task[i].series))
  /\ task' = [task EXCEPT ![i].pc = "indexOk", ![i].index = DecodedIndex(task[i].series)]
  /\ UNCHANGED <<categoryCache, storeVars, ncalls, inflight, faults, clears>>

IndexFetchUndecodedNotCached(i) ==
  /\ EventLoopIdle
  /\ last' = [op |-> "IndexFetchUndecoded", call |-> i, arg |-> ""]
  /\ UNCHANGED <<remoteVars, docVars, composableVars>>
  /\ task[i].pc = "indexFetch"
  /\ faults < MaxFaults
  /\ faults' = faults + 1
  /\ seriesIndexCache' = seriesIndexCache
  /\ task' = [task EXCEPT ![i].pc = "indexOk", ![i].index = RawIndex(task[i].series)]
  /\ UNCHANGED <<categoryCache, storeVars, ncalls, inflight, clears>>
\* the manifest is fetched but its blob does not decode (lines 151-154, 161)
IndexFetchUndecoded(i) ==
  /\ EventLoopIdle
  /\ last' = [op |-> "IndexFetchUndecoded", call |-> i, arg |-> ""]
  /\ UNCHANGED <<remoteVars, docVars, composableVars>>
  /\ task[i].pc = "indexFetch"
  /\ faults < MaxFaults
  /\ faults' = faults + 1
  /\ seriesIndexCache' = Put(seriesIndexCache, task[i].series, RawIndex(task[i].series))
  /\ task' = [task EXCEPT ![i].pc = "indexOk", ![i].index = RawIndex(task[i].series)]
  /\ UNCHANGED <<categoryCache, storeVars, ncalls, inflight, clears>>

IndexFetchFailCached(i) ==
  /\ EventLoopIdle
  /\ last' = [op |-> "IndexFetchFail", call |-> i, arg |-> ""]
  /\ UNCHANGED <<remoteVars, docVars, composableVars>>
  /\ task[i].pc = "indexFetch"
  /\ faults < MaxFaults
  /\ faults' = faults + 1
  /\ task' = [task EXCEPT ![i].pc = "indexErr", ![i].err = ErrHttp]
  /\ seriesIndexCache' = Put(seriesIndexCache, task[i].series, NoIndex)
  /\ UNCHANGED <<categoryCache, storeVars, ncalls, inflight, clears>>
\* the manifest fetch fails: not ok, or a transport error (lines 128-131, 164-167)
IndexFetchFail(i) ==
  /\ EventLoopIdle
  /\ last' = [op |-> "IndexFetchFail", call |-> i, arg |-> ""]
  /\ UNCHANGED <<remoteVars, docVars, composableVars>>
  /\ task[i].pc = "indexFetch"
  /\ faults < MaxFaults
  /\ faults' = faults + 1
  /\ task' = [task EXCEPT ![i].pc = "indexErr", ![i].err = ErrHttp]
  /\ UNCHANGED <<cacheVars, storeVars, ncalls, inflight, clears>>

InitCatchKeepList(i, message) ==
  /\ error' = message
  /\ loading' = FALSE
  /\ task' = [task EXCEPT ![i] = Ended(task[i], "failed")]
  /\ UNCHANGED <<wallpapers, currentLoadedSeries, loadedCategories, isBackgroundLoading,
                 initialLoadedCount, cacheVars, ncalls, inflight, faults, clears>>
InitCatchNoFinally(i, message) ==
  /\ error' = message
  /\ wallpapers' = <<>>
  /\ task' = [task EXCEPT ![i] = Ended(task[i], "failed")]
  /\ UNCHANGED <<loading, currentLoadedSeries, loadedCategories, isBackgroundLoading,
                 initialLoadedCount, cacheVars, ncalls, inflight, faults, clears>>
\* the catch and finally blocks of initSeries (lines 267-274)
InitCatch(i, message) ==
  /\ error' = message
  /\ wallpapers' = <<>>
  /\ loading' = FALSE
  /\ task' = [task EXCEPT ![i] = Ended(task[i], "failed")]
  /\ UNCHANGED <<currentLoadedSeries, loadedCategories, isBackgroundLoading,
                 initialLoadedCount, cacheVars, ncalls, inflight, faults, clears>>

\* the await of loadSeriesIndex rejected
InitIndexFail(i) ==
  /\ last' = [op |-> "InitIndexFail", call |-> i, arg |-> ""]
  /\ UNCHANGED <<remoteVars, docVars, composableVars>>
  /\ task[i].kind = "init"
  /\ task[i].pc = "indexErr"
  /\ InitCatch(i, task[i].err)

\* the await of loadSeriesIndex resolved: the initial window is requested
\* (lines 245-247); a manifest without categories throws at the slice
InitWindow(i) ==
  /\ last' = [op |-> "InitWindow", call |-> i, arg |-> ""]
  /\ UNCHANGED <<remoteVars, docVars, composableVars>>
  /\ task[i].kind = "init"
  /\ task[i].pc = "indexOk"
  /\ IF ~task[i].index.hasCategories
     THEN InitCatch(i, ErrType)
     ELSE LET d == Dispatch(i, 0, task[i].series,
                            Slice(task[i].index.categories, 0, INITIAL_WINDOW))
          IN /\ task' = [task EXCEPT ![i].pc = "window", ![i].slots = d.slots]
             /\ inflight' = inflight \cup d.calls
             /\ UNCHANGED <<cacheVars, storeVars, ncalls, faults, clears>>

\* a category fetch settles (lines 188-221): on success the list is cached
\* and handed to the Promise.all that still waits for it
Waits(c) ==
  /\ task[c.owner].pc \in {"window", "batch"}
  /\ task[c.owner].gen = c.gen

\* the fetch of c settles before the fetch of an earlier slot of its Promise.all
EarlierPending(c) ==
  \E j \in 1..(c.slot - 1) : task[c.owner].slots[j].st = "pending"

ArrivalOrder(t) == IF t.reordered THEN "reordered" ELSE "in order"

CategoryFetchOk(c) ==
  /\ EventLoopIdle
  /\ last' = [op |-> "CategoryFetchOk", call |-> c.owner, arg |-> ""]
  /\ UNCHANGED <<remoteVars, docVars, composableVars>>
  /\ c \in inflight
  /\ inflight' = inflight \ {c}
  /\ categoryCache' = Put(categoryCache, CacheKey(c.series, c.file),
                          CategoryItems(c.series, c.file))
  /\ task' = IF Waits(c)
             THEN [task EXCEPT ![c.owner].slots[c.slot] =
                                  [file |-> c.file, st |-> "ok",
                                   val |-> CategoryItems(c.series, c.file)],
                               ![c.owner].reordered = @ \/ EarlierPending(c)]
             ELSE task
  /\ UNCHANGED <<seriesIndexCache, storeVars, ncalls, faults, clears>>

CategoryFetchFail(c) ==
  /\ EventLoopIdle
  /\ last' = [op |-> "CategoryFetchFail", call |-> c.owner, arg |-> ""]
  /\ UNCHANGED <<remoteVars, docVars, composableVars>>
  /\ c \in inflight
  /\ faults < MaxFaults
  /\ faults' = faults + 1
  /\ inflight' = inflight \ {c}
  /\ task' = IF Waits(c)
             THEN [task EXCEPT ![c.owner].slots[c.slot].st = "err"]
             ELSE task
  /\ UNCHANGED <<cacheVars, storeVars, ncalls, clears>>

InitMergeAwaitsLoader(i) ==
  /\ last' = [op |-> "InitMerge", call |-> i, arg |-> ArrivalOrder(task[i])]
  /\ UNCHANGED <<remoteVars, docVars, composableVars>>
  /\ task[i].pc = "window"
  /\ AllOk(task[i].slots)
  /\ LET t == task[i]
         cats == t.index.categories
         merged == MergeResults(t.slots)
         loaded == loadedCategories \cup Range(Slice(cats, 0, INITIAL_WINDOW))
         remaining == Slice(cats, INITIAL_WINDOW, Len(cats))
     IN IF Len(remaining) > 0
        THEN LoaderRun(i, t, remaining, 1, merged, loaded, TRUE, Len(merged))
        ELSE /\ wallpapers' = merged
             /\ loadedCategories' = loaded
             /\ initialLoadedCount' = Len(merged)
             /\ task' = [task EXCEPT ![i] = Ended(t, "ready")]
             /\ UNCHANGED <<isBackgroundLoading, inflight>>
  /\ loading' = (task'[i].pc = "batch")
  /\ UNCHANGED <<currentLoadedSeries, error, cacheVars, ncalls, faults, clears>>
\* Promise.all of the initial window resolved (lines 250-265, 272-274)
InitMerge(i) ==
  /\ last' = [op |-> "InitMerge", call |-> i, arg |-> ArrivalOrder(task[i])]
  /\ UNCHANGED <<remoteVars, docVars, composableVars>>
  /\ task[i].pc = "window"
  /\ AllOk(task[i].slots)
  /\ LET t == task[i]
         cats == t.index.categories
         merged == MergeResults(t.slots)
         loaded == loadedCategories \cup Range(Slice(cats, 0, INITIAL_WINDOW))
         remaining == Slice(cats, INITIAL_WINDOW, Len(cats))
     IN IF Len(remaining) > 0
        THEN LoaderRun(i, t, remaining, 1, merged, loaded, TRUE, Len(merged))
        ELSE /\ wallpapers' = merged
             /\ loadedCategories' = loaded
             /\ initialLoadedCount' = Len(merged)
             /\ task' = [task EXCEPT ![i] = Ended(t, "ready")]
             /\ UNCHANGED <<isBackgroundLoading, inflight>>
  /\ loading' = FALSE
  /\ UNCHANGED <<currentLoadedSeries, error, cacheVars, ncalls, faults, clears>>

\* Promise.all of the initial window rejected
InitWindowFail(i) ==
  /\ last' = [op |-> "InitWindowFail", call |-> i, arg |-> ""]
  /\ UNCHANGED <<remoteVars, docVars, composableVars>>
  /\ task[i].pc = "window"
  /\ SomeErr(task[i].slots)
  /\ InitCatch(i, ErrHttp)

\* Promise.all of a background batch resolved (lines 301-312)
BatchDone(i) ==
  /\ last' = [op |-> "BatchDone", call |-> i, arg |-> ArrivalOrder(task[i])]
  /\ UNCHANGED <<remoteVars, docVars, composableVars>>
  /\ task[i].pc = "batch"
  /\ AllOk(task[i].slots)
  /\ wallpapers' = wallpapers \o MergeResults(task[i].slots)
  /\ loadedCategories' = loadedCategories \cup SlotFiles(task[i].slots)
  /\ task' = [task EXCEPT ![i].pc = "pause", ![i].slots = <<>>, ![i].reordered = FALSE]
  /\ UNCHANGED <<currentLoadedSeries, loading, error, isBackgroundLoading,
                 initialLoadedCount, cacheVars, ncalls, inflight, faults, clears>>

\* a rejected batch that keeps the categories that did fetch
BatchFailKeepsFetched(i) ==
  /\ last' = [op |-> "BatchFail", call |-> i, arg |-> ""]
  /\ UNCHANGED <<remoteVars, docVars, composableVars>>
  /\ task[i].pc = "batch"
  /\ SomeErr(task[i].slots)
  /\ LoaderRun(i, task[i], task[i].cats, task[i].batch + 1,
               wallpapers \o MergeResults(task[i].slots),
               loadedCategories \cup {task[i].slots[j].file :
                                        j \in {k \in 1..Len(task[i].slots) :
                                                 task[i].slots[k].st = "ok"}},
               isBackgroundLoading, initialLoadedCount)
  /\ UNCHANGED <<currentLoadedSeries, loading, error, cacheVars, ncalls, faults, clears>>
BatchFailStopsLoader(i) ==
  /\ last' = [op |-> "BatchFail", call |-> i, arg |-> ""]
  /\ UNCHANGED <<remoteVars, docVars, composableVars>>
  /\ task[i].pc = "batch"
  /\ SomeErr(task[i].slots)
  /\ task' = [task EXCEPT ![i] = LoaderEnd(task[i])]
  /\ UNCHANGED <<storeVars, inflight, cacheVars, ncalls, faults, clears>>
\* Promise.all of a background batch rejected: the catch of lines 314-317,
\* then the loop goes on with the next batch
BatchFail(i) ==
  /\ last' = [op |-> "BatchFail", call |-> i, arg |-> ""]
  /\ UNCHANGED <<remoteVars, docVars, composableVars>>
  /\ task[i].pc = "batch"
  /\ SomeErr(task[i].slots)
  /\ LoaderRun(i, task[i], task[i].cats, task[i].batch + 1, wallpapers,
               loadedCategories, isBackgroundLoading, initialLoadedCount)
  /\ UNCHANGED <<currentLoadedSeries, loading, error, cacheVars, ncalls, faults, clears>>

\* the pause between two batches is over (line 312)
PauseDone(i) ==
  /\ EventLoopIdle
  /\ last' = [op |-> "PauseDone", call |-> i, arg |-> ""]
  /\ UNCHANGED <<remoteVars, docVars, composableVars>>
  /\ task[i].pc = "pause"
  /\ LoaderRun(i, task[i], task[i].cats, task[i].batch + 1, wallpapers,
               loadedCategories, isBackgroundLoading, initialLoadedCount)
  /\ UNCHANGED <<currentLoadedSeries, loading, error, cacheVars, ncalls, faults, clears>>

\* ------------------------------------------------------ loadAllCategories
Unloaded(cats, loaded) == SelectSeq(cats, LAMBDA f : f \notin loaded)

Rejected(t) == [Ended(t, "rejected") EXCEPT !.settled = "rejected"]

\* loadAllCategories(seriesId) up to its first await (lines 328-345): without
\* a cached manifest it only requests the manifest; a cached manifest
\* without categories throws at the filter; otherwise the loader is started
\* on the categories not marked loaded
CallLoadAll(seriesId) ==
  /\ last' = [op |-> "CallLoadAll", call |-> ncalls + 1, arg |-> seriesId]
  /\ UNCHANGED <<remoteVars, docVars, composableVars>>
  /\ ncalls < MaxCalls
  /\ ncalls' = ncalls + 1
  /\ LET i == ncalls + 1
         r == LoadSeriesIndexStart(seriesId)
         t == [NewTask EXCEPT !.kind = "all", !.series = seriesId]
     IN IF seriesId \notin DOMAIN seriesIndexCache
        THEN /\ task' = [task EXCEPT ![i] = [t EXCEPT !.pc = r.pc, !.err = r.err]]
             /\ UNCHANGED <<storeVars, inflight>>
        ELSE IF ~IndexCached(seriesId).hasCategories
        THEN /\ task' = [task EXCEPT ![i] = Rejected(t)]
             /\ UNCHANGED <<storeVars, inflight>>
        ELSE IF Unloaded(IndexCached(seriesId).categories, loadedCategories) = <<>>
        THEN /\ task' = [task EXCEPT ![i] = Ended(t, "returned")]
             /\ UNCHANGED <<storeVars, inflight>>
        ELSE /\ loading' = TRUE
             /\ LoaderRun(i, t, Unloaded(IndexCached(seriesId).categories, loadedCategories),
                          1, wallpapers, loadedCategories, isBackgroundLoading,
                          initialLoadedCount)
             /\ UNCHANGED <<currentLoadedSeries, error>>
  /\ UNCHANGED <<cacheVars, faults, clears>>

\* the await of loadSeriesIndex in loadAllCategories settled (lines 331-332):
\* the call returns, or rejects with the error of loadSeriesIndex
LoadAllIndexSettled(i) ==
  /\ last' = [op |-> "LoadAllIndexSettled", call |-> i, arg |-> ""]
  /\ UNCHANGED <<remoteVars, docVars, composableVars>>
  /\ task[i].kind = "all"
  /\ task[i].pc \in {"indexOk", "indexErr"}
  /\ task' = [task EXCEPT ![i] = IF task[i].pc = "indexOk"
                                  THEN Ended(task[i], "returned")
                                  ELSE Rejected(task[i])]
  /\ UNCHANGED <<cacheVars, storeVars, ncalls, inflight, faults, clears>>

\* the loader awaited by loadAllCategories has ended (lines 347-349)
LoadAllReturn(i) ==
  /\ last' = [op |-> "LoadAllReturn", call |-> i, arg |-> ""]
  /\ UNCHANGED <<remoteVars, docVars, composableVars>>
  /\ task[i].pc = "allEnd"
  /\ loading' = FALSE
  /\ task' = [task EXCEPT ![i] = Ended(task[i], "done")]
  /\ UNCHANGED <<wallpapers, currentLoadedSeries, loadedCategories, error,
                 isBackgroundLoading, initialLoadedCount, cacheVars, ncalls, inflight,
                 faults, clears>>

\* -------------------------------------------------------------- clearCache
KeysOfSeriesLoose(seriesId) ==
  {key \in DOMAIN categoryCache : StartsWith(key, Chars[seriesId])}
KeysOfSeries(seriesId) ==
  {key \in DOMAIN categoryCache : StartsWith(key, Chars[seriesId] \o <<":">>)}

ClearCache(seriesId) ==
  /\ last' = [op |-> "ClearCache", call |-> 0, arg |-> seriesId]
  /\ UNCHANGED <<remoteVars, docVars, composableVars>>
  /\ clears < MaxClears
  /\ clears' = clears + 1
  /\ seriesIndexCache' = Delete(seriesIndexCache, {seriesId})
  /\ categoryCache' = Delete(categoryCache, KeysOfSeries(seriesId))
  /\ UNCHANGED <<storeVars, task, ncalls, inflight, faults>>

ClearAllCaches ==
  /\ last' = [op |-> "ClearAllCaches", call |-> 0, arg |-> ""]
  /\ UNCHANGED <<remoteVars, docVars, composableVars>>
  /\ clears < MaxClears
  /\ clears' = clears + 1
  /\ seriesIndexCache' = EmptyCache
  /\ categoryCache' = EmptyCache
  /\ UNCHANGED <<storeVars, task, ncalls, inflight, faults>>

\* ------------------------------------------------------------------- system
Calls == 1..MaxCalls

DoCallInit == \E s \in SeriesIds, f \in BOOLEAN : CallInit(s, f)
DoIndexFetchOk == \E i \in Calls : IndexFetchOk(i)
DoIndexFetchUndecoded == \E i \in Calls : IndexFetchUndecoded(i)
DoIndexFetchFail == \E i \in Calls : IndexFetchFail(i)
DoInitIndexFail == \E i \in Calls : InitIndexFail(i)
DoInitWindow == \E i \in Calls : InitWindow(i)
DoCategoryFetchOk == \E c \in inflight : CategoryFetchOk(c)
DoCategoryFetchFail == \E c \in inflight : CategoryFetchFail(c)
DoInitMerge == \E i \in Calls : InitMerge(i)
DoInitWindowFail == \E i \in Calls : InitWindowFail(i)
DoBatchDone == \E i \in Calls : BatchDone(i)
DoBatchFail == \E i \in Calls : BatchFail(i)
DoPauseDone == \E i \in Calls : PauseDone(i)
DoClearCache == \E s \in SeriesIds : ClearCache(s)
DoCallLoadAll == \E s \in SeriesIds : CallLoadAll(s)
DoLoadAllIndexSettled == \E i \in Calls : LoadAllIndexSettled(i)
DoLoadAllReturn == \E i \in Calls : LoadAllReturn(i)

Next ==
  \/ DoCallInit
  \/ DoIndexFetchOk
  \/ DoIndexFetchUndecoded
  \/ DoIndexFetchFail
  \/ DoInitIndexFail
  \/ DoInitWindow
  \/ DoCategoryFetchOk
  \/ DoCategoryFetchFail
  \/ DoInitMerge
  \/ DoInitWindowFail
  \/ DoBatchDone
  \/ DoBatchFail
  \/ DoPauseDone
  \/ DoClearCache
  \/ ClearAllCaches
  \/ DoCallLoadAll
  \/ DoLoadAllIndexSettled
  \/ DoLoadAllReturn

Spec == Init /\ [][Next]_vars

\* ------------------------------------------- one document, one loader
\* A document arrives from the network and one of the two loaders turns it
\* into its list: loadCategory of the store, or fetchWallpapers of the
\* composable.
InitDoc ==
  /\ StoreConstructed
  /\ emptyShards = {}
  /\ result = NoResult
  /\ ComposableConstructed("wallpaper.js")
  /\ remote = [version |-> 0, manifestOk |-> TRUE]
  /\ \/ doc \in Docs /\ decoding = NoDecoding
     \/ doc = NoDoc /\ decoding \in Decodings

LoadCategoryDoc ==
  /\ result = NoResult
  /\ result' = LoadCategoryBody(doc)
  /\ UNCHANGED <<cacheVars, storeVars, task, ncalls, inflight, faults, clears, last,
                 emptyShards, doc, decoding, composableVars>>

FetchWallpapersDoc ==
  /\ result = NoResult
  /\ result' = FetchWallpapersBody(doc)
  /\ UNCHANGED <<cacheVars, storeVars, task, ncalls, inflight, faults, clears, last,
                 emptyShards, doc, decoding, composableVars>>

\* decodeDataWithWorker up to its first await, or to its end when the
\* worker is not used
DecodeCall ==
  /\ decoding.pc = "called"
  /\ decoding' = IF UseWorker(decoding)
                 THEN [decoding EXCEPT !.pc = "worker", !.workerAttempts = @ + 1]
                 ELSE SyncDecode(decoding)
  /\ UNCHANGED <<cacheVars, storeVars, task, ncalls, inflight, faults, clears, last,
                 emptyShards, doc, result, composableVars>>

\* workerDecodeAndParse settles: its value is returned, or its rejection is
\* caught and the synchronous path runs
DecodeWorkerSettled ==
  /\ decoding.pc = "worker"
  /\ decoding' = IF decoding.worker = "ok"
                 THEN [decoding EXCEPT !.pc = "resolved", !.value = "worker"]
                 ELSE SyncDecode(decoding)
  /\ UNCHANGED <<cacheVars, storeVars, task, ncalls, inflight, faults, clears, last,
                 emptyShards, doc, result, composableVars>>

NextDoc ==
  \/ LoadCategoryDoc
  \/ FetchWallpapersDoc
  \/ DecodeCall
  \/ DecodeWorkerSettled

SpecDoc == InitDoc /\ [][NextDoc]_vars

\* ------------------------------------------- the cache layers on their own
\* loadCategory is exported by the store and loadSeriesIndex is called by
\* initSeries and loadAllCategories: here each is called on its own, by
\* callers that overlap freely. A fetch in flight is an element of inflight;
\* slot 0 and no file mark the fetch of a manifest.
KeyFiles == {"f1", "f4"}

CallLoadCategory(seriesId, categoryFile) ==
  /\ ncalls < MaxCallers
  /\ ncalls' = ncalls + 1
  /\ inflight' = IF LoadCategoryStart(seriesId, categoryFile).st = "pending"
                 THEN inflight \cup {[owner |-> ncalls + 1, gen |-> 0, slot |-> 1,
                                      series |-> seriesId, file |-> categoryFile]}
                 ELSE inflight
  /\ last' = [op |-> "CallLoadCategory", call |-> ncalls + 1,
              arg |-> <<seriesId, categoryFile>>]
  /\ UNCHANGED <<cacheVars, storeVars, task, faults, clears, remoteVars, docVars,
                 composableVars>>

CallLoadSeriesIndex(seriesId) ==
  /\ ncalls < MaxCallers
  /\ ncalls' = ncalls + 1
  /\ inflight' = IF LoadSeriesIndexStart(seriesId).pc = "indexFetch"
                 THEN inflight \cup {[owner |-> ncalls + 1, gen |-> 0, slot |-> 0,
                                      series |-> seriesId, file |-> ""]}
                 ELSE inflight
  /\ last' = [op |-> "CallLoadSeriesIndex", call |-> ncalls + 1, arg |-> <<seriesId, "">>]
  /\ UNCHANGED <<cacheVars, storeVars, task, faults, clears, remoteVars, docVars,
                 composableVars>>

\* the manifest arrives and is cached (lines 127-155)
SeriesIndexFetched(c) ==
  /\ c \in inflight
  /\ c.slot = 0
  /\ inflight' = inflight \ {c}
  /\ seriesIndexCache' = Put(seriesIndexCache, c.series, DecodedIndex(c.series))
  /\ last' = [op |-> "SeriesIndexFetched", call |-> c.owner, arg |-> <<c.series, "">>]
  /\ UNCHANGED <<categoryCache, storeVars, task, ncalls, faults, clears, remoteVars,
                 docVars, composableVars>>

\* the fetch of a manifest or of a shard fails: nothing is cached
KeyFetchFailed(c) ==
  /\ c \in inflight
  /\ faults < MaxFaults
  /\ faults' = faults + 1
  /\ inflight' = inflight \ {c}
  /\ last' = [op |-> "KeyFetchFailed", call |-> c.owner, arg |-> <<c.series, c.file>>]
  /\ UNCHANGED <<cacheVars, storeVars, task, ncalls, clears, remoteVars, docVars,
                 composableVars>>

\* the shard arrives and is cached (lines 188-213)
KeyCategoryFetched(c) ==
  /\ c \in inflight
  /\ c.slot = 1
  /\ inflight' = inflight \ {c}
  /\ categoryCache' = Put(categoryCache, CacheKey(c.series, c.file),
                          CategoryItems(c.series, c.file))
  /\ last' = [op |-> "KeyCategoryFetched", call |-> c.owner, arg |-> <<c.series, c.file>>]
  /\ UNCHANGED <<seriesIndexCache, storeVars, task, ncalls, faults, clears, remoteVars,
                 docVars, composableVars>>

InitKey == Init

DoCallLoadCategory == \E s \in SeriesIds, f \in KeyFiles : CallLoadCategory(s, f)
DoCallLoadSeriesIndex == \E s \in SeriesIds : CallLoadSeriesIndex(s)
DoSeriesIndexFetched == \E c \in inflight : SeriesIndexFetched(c)
DoKeyCategoryFetched == \E c \in inflight : KeyCategoryFetched(c)
DoKeyFetchFailed == \E c \in inflight : KeyFetchFailed(c)

NextKey ==
  \/ DoCallLoadCategory
  \/ DoCallLoadSeriesIndex
  \/ DoSeriesIndexFetched
  \/ DoKeyCategoryFetched
  \/ DoKeyFetchFailed
  \/ DoClearCache
  \/ ClearAllCaches

SpecKey == InitKey /\ [][NextKey]_vars

\* ------------------------------------------------- the composable's calls
\* what a step of the composable leaves alone
composableRest ==
  <<cacheVars, storeVars, task, ncalls, inflight, faults, emptyShards, docVars,
    composableFile>>

\* fetchWallpapers(seriesId, forceRefresh) up to its first fetch
CallFetchWallpapers(seriesId, forceRefresh) ==
  /\ Len(calls) < MaxFetchCalls
  /\ LET i == Len(calls) + 1
         w0 == [World EXCEPT
                  !.calls = Append(@, NewCall("fetchWallpapers", seriesId,
                                              forceRefresh, FALSE))]
         w1 == [w0 EXCEPT !.composable = [@ EXCEPT !.loading = TRUE, !.error = NoError]]
     IN Becomes(
          IF seriesId \notin SERIES_CONFIG
          THEN [w0 EXCEPT !.calls[i].pc = "returned",
                          !.composable.error = ErrInvalidSeries]
          ELSE IF ~forceRefresh /\ seriesId \in DOMAIN seriesCache
          THEN [w0 EXCEPT
                  !.calls[i] = [@ EXCEPT !.pc = "returned", !.hit = TRUE, !.ok = TRUE,
                                         !.value = seriesCache[seriesId]],
                  !.composable =
                    [@ EXCEPT !.wallpapers = seriesCache[seriesId],
                              !.currentLoadedSeries = seriesId,
                              !.loading = IF composableFile = "wallpaper.js"
                                          THEN FALSE ELSE @]]
          ELSE IF composableFile = "useWallpapers.js"
          THEN [w1 EXCEPT !.calls[i] = [@ EXCEPT !.pc = "dataFetch", !.fetched = 1]]
          ELSE PreloadWallpapersStart(w1, i))
  /\ last' = [op |-> "CallFetchWallpapers", call |-> Len(calls) + 1, arg |-> seriesId]
  /\ UNCHANGED <<composableRest, clears, remote>>

\* preloadWallpapers(seriesId, useLegacyMode) called on its own
CallPreloadWallpapers(seriesId, useLegacyMode) ==
  /\ composableFile = "wallpaper.js"
  /\ Len(calls) < MaxFetchCalls
  /\ Becomes(PreloadWallpapersStart(
       [World EXCEPT !.calls = Append(@, NewCall("preloadWallpapers", seriesId,
                                                 FALSE, useLegacyMode))],
       Len(calls) + 1))
  /\ last' = [op |-> "CallPreloadWallpapers", call |-> Len(calls) + 1, arg |-> seriesId]
  /\ UNCHANGED <<composableRest, clears, remote>>

\* loadCategoryIndex: the manifest arrives, is cached and returned
ManifestFetched(i) ==
  /\ calls[i].pc = "indexFetch"
  /\ LET indexData == RemoteManifest(calls[i].series)
     IN Becomes(AfterIndex(
          [World EXCEPT !.categoryIndexCache = Put(@, calls[i].series, indexData)],
          i, indexData))
  /\ last' = [op |-> "ManifestFetched", call |-> i, arg |-> ""]
  /\ UNCHANGED <<composableRest, clears, remote>>

\* loadCategoryIndex fails and preloadWallpapers rejects with its error
ManifestFetchFailedRejects(i) ==
  /\ calls[i].pc = "indexFetch"
  /\ Becomes(Settle(World, i, FALSE, <<>>, ErrHttp))
  /\ last' = [op |-> "ManifestFetchFailed", call |-> i, arg |-> ""]
  /\ UNCHANGED <<composableRest, clears, remote>>

\* loadCategoryIndex: the fetch fails or answers with an HTTP error
ManifestFetchFailed(i) ==
  /\ calls[i].pc = "indexFetch"
  /\ Becomes(StartLegacy(World, i, "fetch"))
  /\ last' = [op |-> "ManifestFetchFailed", call |-> i, arg |-> ""]
  /\ UNCHANGED <<composableRest, clears, remote>>

\* loadCategoryData: a shard arrives and is cached; the last one of a call
\* that still waits for its shards completes Promise.all
ShardFetched(i, j) ==
  /\ calls[i].slots[j].state = "pending"
  /\ LET t == calls[i]
         items == ShardItems(t.series, t.files[j], remote.version)
         w1 == [World EXCEPT
                  !.categoryDataCache = Put(@, <<t.series, t.files[j]>>, items),
                  !.calls[i].slots[j] = [state |-> "done", items |-> items]]
     IN Becomes(IF t.pc = "categories" /\ AllShardsIn(w1.calls[i].slots)
                THEN MergeShards(w1, i)
                ELSE w1)
  /\ last' = [op |-> "ShardFetched", call |-> i, arg |-> calls[i].files[j]]
  /\ UNCHANGED <<composableRest, clears, remote>>

\* loadCategoryData: a shard fetch fails; the first failure rejects
\* Promise.all, which the inner catch of preloadWallpapers takes
ShardFetchFailed(i, j) ==
  /\ calls[i].slots[j].state = "pending"
  /\ LET w1 == [World EXCEPT !.calls[i].slots[j].state = "failed"]
     IN Becomes(IF calls[i].pc = "categories" THEN StartLegacy(w1, i, "fetch") ELSE w1)
  /\ last' = [op |-> "ShardFetchFailed", call |-> i, arg |-> calls[i].files[j]]
  /\ UNCHANGED <<composableRest, clears, remote>>

\* the whole document of the series arrives, is cached and returned
DataFetched(i) ==
  /\ calls[i].pc = "dataFetch"
  /\ LET transformedList == DataItems(calls[i].series, remote.version)
     IN Becomes(Settle([World EXCEPT
                          !.seriesCache = Put(@, calls[i].series, transformedList)],
                       i, TRUE, transformedList, NoError))
  /\ last' = [op |-> "DataFetched", call |-> i, arg |-> ""]
  /\ UNCHANGED <<composableRest, clears, remote>>

DataFetchFailed(i) ==
  /\ calls[i].pc = "dataFetch"
  /\ Becomes(Settle(World, i, FALSE, <<>>, ErrHttp))
  /\ last' = [op |-> "DataFetchFailed", call |-> i, arg |-> ""]
  /\ UNCHANGED <<composableRest, clears, remote>>

\* clearCache(seriesId) of the composable
ComposableClearCache(seriesId) ==
  /\ clears < MaxClears
  /\ clears' = clears + 1
  /\ seriesCache' = Delete(seriesCache, {seriesId})
  /\ last' = [op |-> "ComposableClearCache", call |-> 0, arg |-> seriesId]
  /\ UNCHANGED <<composableRest, categoryIndexCache, categoryDataCache, composable,
                 calls, remote>>

\* clearCache() of the composable
ComposableClearAll ==
  /\ clears < MaxClears
  /\ clears' = clears + 1
  /\ seriesCache' = EmptyCache
  /\ last' = [op |-> "ComposableClearAll", call |-> 0, arg |-> ""]
  /\ UNCHANGED <<composableRest, categoryIndexCache, categoryDataCache, composable,
                 calls, remote>>

\* the server replaces its documents
RemoteUpdate ==
  /\ remote.version < MaxVersion
  /\ remote' = [remote EXCEPT !.version = @ + 1]
  /\ UNCHANGED <<composableRest, seriesCache, categoryIndexCache, categoryDataCache,
                 composable, calls, clears, last>>

CallIds == 1..Len(calls)
DoCallFetchWallpapers ==
  \E s \in ComposableSeries, f \in BOOLEAN : CallFetchWallpapers(s, f)
DoCallPreloadWallpapers ==
  \E s \in ComposableSeries, m \in BOOLEAN : CallPreloadWallpapers(s, m)
DoManifestFetched == \E i \in CallIds : ManifestFetched(i)
DoManifestFetchFailed == \E i \in CallIds : ManifestFetchFailed(i)
DoShardFetched == \E i \in CallIds : \E j \in 1..Len(calls[i].slots) : ShardFetched(i, j)
DoShardFetchFailed ==
  \E i \in CallIds : \E j \in 1..Len(calls[i].slots) : ShardFetchFailed(i, j)
DoDataFetched == \E i \in CallIds : DataFetched(i)
DoDataFetchFailed == \E i \in CallIds : DataFetchFailed(i)
DoComposableClearCache == \E s \in ComposableSeries : ComposableClearCache(s)

InitComposable ==
  /\ StoreConstructed
  /\ emptyShards = {}
  /\ doc = NoDoc
  /\ result = NoResult
  /\ decoding = NoDecoding
  /\ \E file \in ComposableFiles : ComposableConstructed(file)
  /\ remote \in [version : {0}, manifestOk : BOOLEAN]

NextComposable ==
  \/ DoCallFetchWallpapers
  \/ DoCallPreloadWallpapers
  \/ DoManifestFetched
  \/ DoManifestFetchFailed
  \/ DoShardFetched
  \/ DoShardFetchFailed
  \/ DoDataFetched
  \/ DoDataFetchFailed
  \/ DoComposableClearCache
  \/ ComposableClearAll
  \/ RemoteUpdate

SpecComposable == InitComposable /\ [][NextComposable]_vars

\* ------------------------------------------------------------------ claims
\* what the remote holds: the items of the given category files of a series
ItemsOf(seriesId, files) ==
  Flat([j \in 1..Len(files) |-> CategoryItems(seriesId, files[j])])
WindowFiles(seriesId) == Slice(RemoteCategories(seriesId), 0, INITIAL_WINDOW)
AllFiles == Range(FirstFiles) \cup Range(SecondFiles)
Returned == {"new", "skipped", "failed", "ready", "done", "returned", "rejected"}
Foreground == {"indexFetch", "indexOk", "indexErr", "window"}
LoaderSteps == {"InitMerge", "BatchFail", "PauseDone"}

\* C1: when an activation merges its initial window, the list is the items
\* of the first three manifest categories, in manifest order and in each
\* category's own order, whatever the order in which the fetches completed.
C1_InitialWindowOrder ==
  last.op = "InitMerge" =>
    wallpapers = ItemsOf(task[last.call].series, WindowFiles(task[last.call].series))

C1_Witness ==
  /\ last.op = "InitMerge"
  /\ last.arg = "reordered"
  /\ task[last.call].series = "a"
  /\ Len(wallpapers) = INITIAL_WINDOW * ItemsPerCat

\* C2: when the background loader of the current series has finished (and
\* no fetch failed), the list holds every item of every manifest category
\* exactly once, in manifest order.
C2_BackgroundComplete ==
  (/\ last.op \in LoaderSteps
   /\ task[last.call].pc = "done"
   /\ task[last.call].series = currentLoadedSeries
   /\ faults = 0)
  => wallpapers = ItemsOf(task[last.call].series, RemoteCategories(task[last.call].series))

\* C3: a step of a background loader started for a series that is no longer
\* the current one changes neither the list, nor the loaded set, nor
\* isBackgroundLoading, nor initialLoadedCount.
C3_StaleCompletionNoOp ==
  [][\A i \in Calls :
       (/\ task[i].kind = "init"
        /\ task[i].pc \in {"batch", "pause"}
        /\ task[i].series # currentLoadedSeries
        /\ last'.call = i
        /\ last'.op \in {"BatchDone", "BatchFail", "PauseDone"})
       => UNCHANGED <<wallpapers, loadedCategories, isBackgroundLoading,
                      initialLoadedCount>>]_vars

\* C4 (as claimed): no key has two fetches on the network at once.
C4_SingleFlight ==
  /\ \A c1, c2 \in inflight :
       (c1.series = c2.series /\ c1.file = c2.file) => c1 = c2
  /\ \A i, j \in Calls :
       (/\ task[i].pc = "indexFetch"
        /\ task[j].pc = "indexFetch"
        /\ task[i].series = task[j].series) => i = j

\* C4 (amended): a request for a key that is cached when the request is made
\* issues no fetch and is answered with the cached value; a fetch is issued
\* only for a key that is not cached at that moment.
C4_NoFetchWhenCached ==
  /\ (/\ last.op \in {"InitWindow", "InitMerge", "BatchFail", "PauseDone"}
      /\ task[last.call].pc \in {"window", "batch"})
     => LET t == task[last.call]
        IN \A j \in 1..Len(t.slots) :
             LET key == CacheKey(t.series, t.slots[j].file)
                 sent == \E c \in inflight :
                           c.owner = last.call /\ c.gen = t.gen /\ c.slot = j
             IN IF key \in DOMAIN categoryCache
                THEN /\ t.slots[j].st = "ok"
                     /\ t.slots[j].val = categoryCache[key]
                     /\ ~sent
                ELSE t.slots[j].st = "pending" /\ sent
  /\ (last.op = "CallInit" /\ task[last.call].pc = "indexFetch")
     => task[last.call].series \notin DOMAIN seriesIndexCache

C4_Witness ==
  /\ last.op = "InitWindow"
  /\ task[last.call].pc = "window"
  /\ Len(task[last.call].slots) = INITIAL_WINDOW
  /\ AllOk(task[last.call].slots)

\* C5: a call of loadSeriesIndex made while the series index is cached (an
\* earlier call resolved) fetches nothing and returns the cached manifest.
C5_IndexCacheIdempotent ==
  (/\ last.op = "CallInit"
   /\ task[last.call].pc # "skipped"
   /\ task[last.call].series \in DOMAIN seriesIndexCache)
  => /\ task[last.call].pc = "indexOk"
     /\ task[last.call].index = seriesIndexCache[task[last.call].series]

C5_Witness ==
  /\ last.op = "CallInit"
  /\ task[last.call].pc = "indexOk"
  /\ task[last.call].index = DecodedIndex(task[last.call].series)

\* C6: clearCache(S) leaves every index entry and every category entry of
\* any other series as it was, and adds no entry.
C6_ClearCacheIsolation ==
  [][last'.op = "ClearCache" =>
       /\ DOMAIN seriesIndexCache' \subseteq DOMAIN seriesIndexCache
       /\ DOMAIN categoryCache' \subseteq DOMAIN categoryCache
       /\ \A s \in SeriesIds \ {last'.arg} :
            /\ s \in DOMAIN seriesIndexCache =>
                 /\ s \in DOMAIN seriesIndexCache'
                 /\ seriesIndexCache'[s] = seriesIndexCache[s]
            /\ \A f \in AllFiles :
                 CacheKey(s, f) \in DOMAIN categoryCache =>
                   /\ CacheKey(s, f) \in DOMAIN categoryCache'
                   /\ categoryCache'[CacheKey(s, f)] = categoryCache[CacheKey(s, f)]]_vars

C6_Witness ==
  /\ last.op = "ClearCache"
  /\ last.arg = "a"
  /\ clears = 1
  /\ \E i \in Calls : task[i].series = "a" /\ task[i].pc \in {"batch", "pause", "done"}
  /\ "a" \notin DOMAIN seriesIndexCache
  /\ \A f \in AllFiles : CacheKey("a", f) \notin DOMAIN categoryCache
  /\ "av" \in DOMAIN seriesIndexCache
  /\ CacheKey("av", "f4") \in DOMAIN categoryCache

\* C7 (as claimed): an activation of an unknown series rejects, with the
\* error set and the list empty.
C7_UnknownSeriesRejects ==
  (last.op = "InitIndexFail" /\ task[last.call].series \notin SERIES_CONFIG)
  => /\ task[last.call].settled = "rejected"
     /\ error # NoError
     /\ wallpapers = <<>>

\* C7 (amended): an activation of an unknown series never fetches; it
\* catches the invalid-series error and returns normally, with the error
\* set to the invalid-series message, loading false and the list empty.
C7_UnknownSeriesCaught ==
  /\ \A i \in Calls :
       (task[i].kind = "init" /\ task[i].series \notin SERIES_CONFIG) =>
         task[i].pc \in {"new", "skipped", "indexErr", "failed"}
  /\ (last.op = "InitIndexFail" /\ task[last.call].series \notin SERIES_CONFIG)
     => /\ task[last.call].pc = "failed"
        /\ task[last.call].settled = "fulfilled"
        /\ error = ErrInvalidSeries
        /\ error # NoError
        /\ loading = FALSE
        /\ wallpapers = <<>>

C7_Witness ==
  /\ last.op = "InitIndexFail"
  /\ task[last.call].series = "t"
  /\ task[last.call].pc = "failed"
  /\ error = ErrInvalidSeries

\* C8: when the index fetch or a fetch of the initial window fails, the
\* activation returns with loading false, the list empty and the error
\* recorded, and it issues no further fetch.
C8_InitialLoadFailure ==
  /\ (/\ last.op \in {"InitIndexFail", "InitWindowFail"}
      /\ task[last.call].series \in SERIES_CONFIG)
     => /\ task[last.call].pc = "failed"
        /\ task[last.call].settled = "fulfilled"
        /\ loading = FALSE
        /\ wallpapers = <<>>
        /\ error = ErrHttp
  /\ \A i \in Calls :
       task[i].pc = "failed" => \A c \in inflight : c.owner = i => c.gen = 0

C8_Witness ==
  /\ last.op = "InitWindowFail"
  /\ task[last.call].pc = "failed"
  /\ error = ErrHttp
  /\ faults = 1

\* C9: initSeries(S, false) called while S is the current series and the
\* list is not empty changes nothing: no loader state, no cache, no fetch,
\* no other call.
C9_NoOpReactivation ==
  [][\A s \in SeriesIds :
       (/\ last'.op = "CallInit"
        /\ last'.arg = s
        /\ ~task'[last'.call].force
        /\ currentLoadedSeries = s
        /\ Len(wallpapers) > 0)
       => /\ UNCHANGED <<storeVars, cacheVars, inflight>>
          /\ task'[last'.call].pc = "skipped"
          /\ \A j \in Calls \ {last'.call} : task'[j] = task[j]]_vars

C9_Witness ==
  /\ last.op = "CallInit"
  /\ task[last.call].pc = "skipped"
  /\ currentLoadedSeries = last.arg
  /\ Len(wallpapers) > 0

\* C10: when an activation has passed the no-op check and requested the
\* manifest (no other call or loader running), the list is empty, the
\* loaded set is empty, the error is cleared and the count is zero.
C10_ResetOnActivation ==
  (/\ last.op = "CallInit"
   /\ task[last.call].pc \in Foreground
   /\ \A j \in Calls \ {last.call} : task[j].pc \in Returned)
  => /\ wallpapers = <<>>
     /\ loadedCategories = {}
     /\ error = NoError
     /\ initialLoadedCount = 0

\* C11: with a manifest of more than three categories and no fetch failure,
\* when an activation of the current series merges its initial window (and returns) the loaded set
\* is exactly the first three category files and isBackgroundLoading is
\* true; when the background loader of the current series ends, the loaded
\* set is exactly all the manifest's category files and isBackgroundLoading
\* is false.
C11_WindowThenBackground ==
  /\ (/\ last.op = "InitMerge"
      /\ Len(RemoteCategories(task[last.call].series)) > INITIAL_WINDOW
      /\ task[last.call].series = currentLoadedSeries
      /\ faults = 0)
     => /\ loadedCategories = Range(WindowFiles(task[last.call].series))
        /\ isBackgroundLoading
  /\ (/\ last.op \in {"BatchFail", "PauseDone"}
      /\ task[last.call].pc = "done"
      /\ task[last.call].series = currentLoadedSeries
      /\ faults = 0)
     => /\ loadedCategories = Range(RemoteCategories(task[last.call].series))
        /\ ~isBackgroundLoading

\* C12: when a fetch of a background batch fails, the categories of that
\* batch whose fetch had succeeded are marked loaded and their items are in
\* the list when the loader leaves the batch, and the loader goes on to the
\* next batch.
C12_PartialBatchSuccess ==
  [][\A i \in Calls :
       (/\ task[i].pc = "batch"
        /\ SomeErr(task[i].slots)
        /\ last'.op = "BatchFail"
        /\ last'.call = i)
       => /\ \A j \in 1..Len(task[i].slots) :
               task[i].slots[j].st = "ok" =>
                 /\ task[i].slots[j].file \in loadedCategories'
                 /\ Range(task[i].slots[j].val) \subseteq Range(wallpapers')
          /\ task'[i].pc \in {"batch", "done"}]_vars

\* C13: at the step where a background loader has exhausted its batches,
\* isBackgroundLoading is false and initialLoadedCount is the length of the
\* list at that moment.
C13_CompletionBookkeeping ==
  (last.op \in LoaderSteps /\ task[last.call].pc \in {"done", "allEnd"})
  => /\ ~isBackgroundLoading
     /\ initialLoadedCount = Len(wallpapers)

C13_Witness ==
  /\ last.op = "PauseDone"
  /\ task[last.call].pc = "done"
  /\ Len(wallpapers) = FirstCats * ItemsPerCat
  /\ initialLoadedCount = FirstCats * ItemsPerCat
  /\ ~isBackgroundLoading

C15_NonBlockingBackground ==
  /\ (/\ last.op = "InitMerge"
      /\ Len(RemoteCategories(task[last.call].series)) > INITIAL_WINDOW)
     => /\ task[last.call].settled = "fulfilled"
        /\ ~loading
        /\ task[last.call].pc \in {"batch", "done"}
        /\ task[last.call].pc = "batch" =>
             /\ isBackgroundLoading
             /\ \A j \in 1..Len(task[last.call].slots) :
                  task[last.call].slots[j].st = "pending" =>
                    \E c \in inflight : c.owner = last.call /\ c.gen = 1 /\ c.slot = j
  /\ \A i \in Calls :
       (task[i].kind = "init" /\ task[i].pc \in {"batch", "pause"})
       => task[i].settled = "fulfilled"

C15_Witness ==
  /\ last.op = "InitMerge"
  /\ task[last.call].pc = "batch"
  /\ task[last.call].settled = "fulfilled"
  /\ ~loading
  /\ isBackgroundLoading
  /\ \E c \in inflight : c.owner = last.call /\ c.gen = 1

\* C16: when loadAllCategories(S) has returned and no fetch failed, every
\* category file of S's manifest is marked loaded and its items are in the
\* list.
C16_LoadAllCompletes ==
  (/\ last.op \in {"CallLoadAll", "LoadAllIndexSettled", "LoadAllReturn"}
   /\ task[last.call].pc \in {"returned", "done"}
   /\ faults = 0)
  => LET S == task[last.call].series
     IN /\ Range(RemoteCategories(S)) \subseteq loadedCategories
        /\ \A f \in Range(RemoteCategories(S)) :
             Range(CategoryItems(S, f)) \subseteq Range(wallpapers)

\* C17: loadCategory resolves for every fetched document that carries a
\* blob (and no data.wallpapers or a list of items as data.wallpapers),
\* whatever the blob decodes to.
C17_DegradeNotFail ==
  (/\ result.by = "loadCategory"
   /\ doc.blob # "none"
   /\ doc.plain \in {"absent", "list"})
  => result.state = "resolved"

\* C20: in every list a loader returns, each item has url, thumbnailUrl and
\* downloadUrl as strings and previewUrl as a string or null.
C20_UrlTotality ==
  result.state = "resolved" =>
    \A j \in 1..Len(result.list) :
      /\ result.list[j].url.type = "string"
      /\ result.list[j].thumbnailUrl.type = "string"
      /\ result.list[j].downloadUrl.type = "string"
      /\ result.list[j].previewUrl.type \in {"string", "null"}

\* C18: when the blob of a fetched manifest does not decode, loadSeriesIndex
\* resolves with the raw document and caches it under the series id; a later
\* loadSeriesIndex of that series returns the cached raw document and
\* fetches nothing.
C18_IndexDecodeDegrade ==
  /\ last.op = "IndexFetchUndecoded" =>
       /\ task[last.call].pc = "indexOk"
       /\ task[last.call].index = RawIndex(task[last.call].series)
       /\ task[last.call].series \in DOMAIN seriesIndexCache
       /\ seriesIndexCache[task[last.call].series] = RawIndex(task[last.call].series)
  /\ \A s \in SERIES_CONFIG :
       (/\ last.op = "CallInit"
        /\ last.arg = s
        /\ task[last.call].pc # "skipped"
        /\ s \in DOMAIN seriesIndexCache
        /\ seriesIndexCache[s] = RawIndex(s))
       => /\ task[last.call].pc = "indexOk"
          /\ task[last.call].index = RawIndex(s)

C18_Witness ==
  /\ last.op = "CallInit"
  /\ task[last.call].pc = "indexOk"
  /\ task[last.call].index = RawIndex(task[last.call].series)
  /\ faults = 1

\* C19: a failing fetch of a manifest or of a category makes its call fail,
\* writes nothing to either cache (a key that was not cached stays uncached)
\* and starts no new fetch; a later call for a series whose manifest is not
\* cached fetches it again, and a later request for a category that is not
\* cached fetches it again.
C19_FetchFailureCachesNothing ==
  [][/\ last'.op \in {"IndexFetchFail", "CategoryFetchFail"} =>
          /\ UNCHANGED cacheVars
          /\ inflight' \subseteq inflight
          /\ \A i \in Calls : task'[i].pc = "indexFetch" => task[i].pc = "indexFetch"
     /\ last'.op = "IndexFetchFail" =>
          /\ task[last'.call].pc = "indexFetch"
          /\ task'[last'.call].pc = "indexErr"
     /\ last'.op = "CategoryFetchFail" =>
          \A i \in Calls :
            \A j \in 1..Len(task[i].slots) :
              (task[i].slots[j].st = "pending" /\ task'[i].slots[j].st # "pending")
              => task'[i].slots[j].st = "err"
     /\ (/\ last'.op \in {"CallInit", "CallLoadAll"}
         /\ last'.arg \in SERIES_CONFIG
         /\ task'[last'.call].pc # "skipped"
         /\ last'.arg \notin DOMAIN seriesIndexCache)
        => task'[last'.call].pc = "indexFetch"
     /\ \A i \in Calls :
          (\/ (task'[i].pc \in {"window", "batch"} /\ task'[i].gen # task[i].gen)
           \/ (task'[i].pc = "window" /\ task[i].pc # "window"))
          => \A j \in 1..Len(task'[i].slots) :
               CacheKey(task'[i].series, task'[i].slots[j].file) \notin DOMAIN categoryCache
               => \E c \in inflight' \ inflight :
                    c.owner = i /\ c.slot = j /\ c.file = task'[i].slots[j].file]_vars

C19_Witness ==
  /\ last.op = "CallInit"
  /\ task[last.call].pc = "indexFetch"
  /\ faults = 1
  /\ clears = 0
  /\ \E j \in Calls \ {last.call} :
       /\ task[j].pc = "failed"
       /\ task[j].series = task[last.call].series

\* the four kinds of URL of an item: the field that holds the absolute URL
\* and the field that holds the relative path it is built from
Kinds ==
  {[url |-> "url", path |-> "path"],
   [url |-> "thumbnailUrl", path |-> "thumbnailPath"],
   [url |-> "previewUrl", path |-> "previewPath"],
   [url |-> "downloadUrl", path |-> "path"]}

\* C21: in every list a loader returns, for each kind an item that came with
\* a non-empty absolute URL field keeps that value, also when it came with
\* the relative path of the kind; the value is built from the path only when
\* the absolute field was not there.
C21_PreResolvedPassThrough ==
  (result.state = "resolved" /\ Len(result.list) > 0) =>
    \A k \in Kinds :
      Truthy(doc.item[k.url]) => result.list[1][k.url] = doc.item[k.url]

\* C22: in a list loadCategory returns, an item that came with neither a
\* non-empty absolute URL nor a relative path for a kind has the empty string
\* for the full, thumbnail and download kinds and null for the preview kind.
C22_NullVersusEmpty ==
  (result.by = "loadCategory" /\ result.state = "resolved" /\ Len(result.list) > 0) =>
    \A k \in Kinds :
      (~Truthy(doc.item[k.url]) /\ ~Truthy(doc.item[k.path]))
      => result.list[1][k.url] = IF k.url = "previewUrl" THEN Null ELSE EmptyStr

\* loadCategory has returned an item that came with no path and no URL at
\* all: its preview is null and its other three URLs are empty strings
C22_Witness ==
  /\ result.by = "loadCategory"
  /\ result.state = "resolved"
  /\ Len(result.list) > 0
  /\ \A k \in Kinds : doc.item[k.url] = Absent /\ doc.item[k.path] = Absent
  /\ result.list[1].previewUrl = Null
  /\ result.list[1].url = EmptyStr
  /\ result.list[1].thumbnailUrl = EmptyStr
  /\ result.list[1].downloadUrl = EmptyStr

\* C23: a call of decodeDataWithWorker tries the worker exactly when the
\* worker is available and the payload is longer than 1000; it runs the
\* synchronous decode exactly when the worker was not tried or its attempt
\* rejected; it makes at most one attempt of each; it resolves with the
\* worker's value when the worker succeeds, and it rejects exactly when the
\* synchronous decode ran and threw.
C23_DecodeStrategy ==
  LET d == decoding
      tryWorker == d.available /\ d.length > WORKER_THRESHOLD
      settled == d.pc \in {"resolved", "rejected"}
  IN /\ d.workerAttempts <= 1 /\ d.syncAttempts <= 1
     /\ d.pc \in {"worker", "resolved", "rejected"}
        => (d.workerAttempts = 1 <=> tryWorker)
     /\ settled => (d.syncAttempts = 1 <=> (~tryWorker \/ d.worker = "rejects"))
     /\ settled => (d.pc = "rejected" <=> (d.syncAttempts = 1 /\ d.sync = "throws"))
     /\ d.pc = "resolved"
        => d.value = IF d.syncAttempts = 1 THEN "sync" ELSE "worker"

\* the worker was tried for a long payload and rejected, then the
\* synchronous decode ran and threw: the call rejected after one attempt of each
C23_Witness ==
  /\ decoding.pc = "rejected"
  /\ decoding.available
  /\ decoding.length > WORKER_THRESHOLD
  /\ decoding.workerAttempts = 1
  /\ decoding.syncAttempts = 1

\* C24: a call of preloadWallpapers that was not asked for legacy mode
\* fetches the whole document of the series only after its sharded path
\* failed with a structural error (a manifest without a categories list),
\* never after a plain fetch failure of the manifest or of a shard.
C24_LegacyOnlyOnStructuralError ==
  \A i \in CallIds :
    (calls[i].legacyUsed /\ ~calls[i].legacyMode) => calls[i].failure = "structural"

\* C24 (amended): the whole document of the series is fetched whenever the
\* sharded path fails: the step at which the manifest fetch fails, at which
\* a manifest without categories arrives, or at which a shard fetch fails,
\* leaves the call on the whole-document path; and a call not asked for
\* legacy mode takes that path only after such a failure.
C24_LegacyOnAnyFailure ==
  /\ last.op = "ManifestFetchFailed"
     => calls[last.call].legacyUsed /\ calls[last.call].pc = "dataFetch"
  /\ (last.op = "ManifestFetched" /\ ~remote.manifestOk)
     => calls[last.call].legacyUsed /\ calls[last.call].pc = "dataFetch"
  /\ last.op = "ShardFetchFailed" => calls[last.call].legacyUsed
  /\ \A i \in CallIds :
       (calls[i].legacyUsed /\ ~calls[i].legacyMode)
       => \/ calls[i].failure = "structural" /\ ~remote.manifestOk
          \/ /\ calls[i].failure = "fetch"
             /\ \/ calls[i].slots = <<>>
                \/ \E j \in 1..Len(calls[i].slots) : calls[i].slots[j].state = "failed"

\* the manifest fetch of a call has just failed and the call now waits for
\* the whole document of the series
C24_Witness ==
  /\ last.op = "ManifestFetchFailed"
  /\ calls[last.call].pc = "dataFetch"
  /\ calls[last.call].failure = "fetch"
  /\ ~calls[last.call].legacyMode

\* C25: right after clearCache(S) of the composable, the index cache and the
\* category cache hold no entry of S, and right after clearCache() both are
\* empty.
C25_ClearCacheWipes ==
  /\ last.op = "ComposableClearCache"
     => /\ last.arg \notin DOMAIN categoryIndexCache
        /\ \A key \in DOMAIN categoryDataCache : key[1] # last.arg
  /\ last.op = "ComposableClearAll"
     => /\ categoryIndexCache = EmptyCache
        /\ categoryDataCache = EmptyCache

\* C26: a call fetchWallpapers(seriesId, true) for a configured series has
\* issued a fetch when its first stretch ends, whether or not seriesCache
\* held an entry of the series, and it never returns the cached list.
C26_ForcedRefreshFetches ==
  /\ (/\ last.op = "CallFetchWallpapers"
      /\ calls[last.call].force
      /\ calls[last.call].series \in SERIES_CONFIG)
     => calls[last.call].fetched >= 1
  /\ \A i \in CallIds :
       (calls[i].via = "fetchWallpapers" /\ calls[i].force) => ~calls[i].hit

\* C27: no item of a category that background batches load (a category
\* beyond the initial window of its series) occurs twice in the merged list,
\* whatever loaders overlap.
C27_NoDoubleAppend ==
  \A j, k \in 1..Len(wallpapers) :
    (j # k /\ wallpapers[j][2] \notin Range(WindowFiles(wallpapers[j][1])))
    => wallpapers[j] # wallpapers[k]

\* the files of the slots of a Promise.all, in slot order
SlotSeq(slots) == [j \in 1..Len(slots) |-> slots[j].file]
\* s keeps the order of the manifest of the series
InManifestOrder(s, seriesId) ==
  s = SelectSeq(RemoteCategories(seriesId), LAMBDA f : f \in Range(s))

\* C28: the step that appends a background batch runs only when every fetch
\* of the batch has settled, and appends in one update the items of the
\* batch's categories in manifest order, whatever order the fetches arrived
\* in; the categories a loader works through are in manifest order, and a
\* loader goes from a batch only to a later batch.
C28_BackgroundMergeOrder ==
  [][/\ last'.op = "BatchDone"
        => LET t == task[last'.call]
           IN /\ AllOk(t.slots)
              /\ InManifestOrder(SlotSeq(t.slots), t.series)
              /\ Range(SlotSeq(t.slots)) \subseteq Range(Batch(t.cats, t.batch))
              /\ InManifestOrder(t.cats, t.series)
              /\ wallpapers' = wallpapers \o ItemsOf(t.series, SlotSeq(t.slots))
     /\ (last'.op \in {"PauseDone", "BatchFail"} /\ task'[last'.call].pc = "batch")
        => task'[last'.call].batch > task[last'.call].batch]_vars

\* a batch of two categories whose second fetch arrived first has just been
\* appended: the list ends with the items of f4, then those of f5
C28_Witness ==
  /\ last.op = "BatchDone"
  /\ last.arg = "reordered"
  /\ task[last.call].series = "a"
  /\ Len(wallpapers) >= 2 * ItemsPerCat
  /\ SubSeq(wallpapers, Len(wallpapers) - 2 * ItemsPerCat + 1, Len(wallpapers))
       = ItemsOf("a", <<"f4", "f5">>)

\* C29: while a loader waits for a batch, every category fetch it has in
\* flight belongs to that batch (the fetches of its earlier batches have all
\* settled), so it has at most BATCH_SIZE fetches in flight.
C29_SequentialBatches ==
  \A i \in Calls :
    task[i].pc = "batch"
    => /\ \A c \in inflight : c.owner = i => c.gen = task[i].gen
       /\ Cardinality({c \in inflight : c.owner = i}) <= BATCH_SIZE

\* the fetches of one key that are in flight
FetchesOf(seriesId, categoryFile) ==
  {c \in inflight : c.series = seriesId /\ c.file = categoryFile}

\* C30: at no moment are more than two fetches of one manifest or of one
\* category shard in flight.
C30_AtMostTwice ==
  \A s \in SeriesIds, f \in KeyFiles \cup {""} : Cardinality(FetchesOf(s, f)) <= 2

\* C30 (amended): a call of loadCategory or loadSeriesIndex for a configured
\* series whose key is not cached starts a fetch of its own, also when
\* fetches of that key are already in flight, and no call starts more than
\* one fetch: the fetches of a key in flight are at most as many as the calls
\* made, with no smaller bound.
C30_OneFetchPerCaller ==
  /\ \A c1, c2 \in inflight : c1.owner = c2.owner => c1 = c2
  /\ Cardinality(inflight) <= ncalls
  /\ (/\ last.op = "CallLoadCategory"
      /\ last.arg[1] \in SERIES_CONFIG
      /\ CacheKey(last.arg[1], last.arg[2]) \notin DOMAIN categoryCache)
     => \E c \in FetchesOf(last.arg[1], last.arg[2]) : c.owner = last.call
  /\ (/\ last.op = "CallLoadSeriesIndex"
      /\ last.arg[1] \in SERIES_CONFIG
      /\ last.arg[1] \notin DOMAIN seriesIndexCache)
     => \E c \in FetchesOf(last.arg[1], "") : c.owner = last.call

\* three calls of loadCategory('a', 'f1') overlap: three fetches of the one
\* key are in flight
C30_Witness ==
  /\ last.op = "CallLoadCategory"
  /\ Cardinality(FetchesOf("a", "f1")) = 3
  /\ CacheKey("a", "f1") \notin DOMAIN categoryCache

\* C31: a fetch that completes writes its key only if the key holds no entry
\* at that moment: between two clearCache calls every key of the index
\* cache and of the category cache is written once.
C31_WriteOnce ==
  [][/\ last'.op = "KeyCategoryFetched"
        => CacheKey(last'.arg[1], last'.arg[2]) \notin DOMAIN categoryCache
     /\ last'.op = "SeriesIndexFetched"
        => last'.arg[1] \notin DOMAIN seriesIndexCache]_vars

\* C32: initSeries(S) without forceRefresh, called when S is the current
\* series, an error is recorded and the list is empty, is not skipped: it
\* clears the error, sets loading and asks for the manifest, which is
\* fetched only if it is not cached; and the step that requests an initial
\* window starts a fetch for exactly the window's files that are not cached.
C32_ExplicitRetry ==
  [][/\ (/\ last'.op = "CallInit"
         /\ ~task'[last'.call].force
         /\ currentLoadedSeries = last'.arg
         /\ error # NoError
         /\ wallpapers = <<>>)
        => /\ error' = NoError
           /\ loading'
           /\ task'[last'.call].pc =
                IF last'.arg \in DOMAIN seriesIndexCache THEN "indexOk"
                ELSE IF last'.arg \in SERIES_CONFIG THEN "indexFetch"
                ELSE "indexErr"
     /\ (last'.op = "InitWindow" /\ task'[last'.call].pc = "window")
        => LET S == task[last'.call].series
           IN /\ \A c \in inflight' \ inflight : c.owner = last'.call /\ c.series = S
              /\ {c.file : c \in inflight' \ inflight}
                   = {f \in Range(WindowFiles(S)) :
                        CacheKey(S, f) \notin DOMAIN categoryCache}]_vars

\* the first activation failed in its initial window, after the manifest was
\* cached; the second call for the same series, without forceRefresh, has
\* cleared the error and goes on with the cached manifest
C32_Witness ==
  /\ last.op = "CallInit"
  /\ last.call = 2
  /\ task[1].pc = "failed"
  /\ task[1].series = task[2].series
  /\ ~task[2].force
  /\ task[2].pc = "indexOk"
  /\ error = NoError
  /\ loading
  /\ wallpapers = <<>>

\* C33: with calls of initSeries only, whenever none of them is between its
\* start and the merge of its initial window, every file in loadedCategories
\* is a category of the current series and its items are in the list.
C33_LoadedSetConsistent ==
  (\A i \in Calls : task[i].kind = "init" /\ task[i].pc \notin Foreground)
  => \A f \in loadedCategories :
       /\ currentLoadedSeries \in SERIES_CONFIG
       /\ f \in Range(RemoteCategories(currentLoadedSeries))
       /\ Range(CategoryItems(currentLoadedSeries, f)) \subseteq Range(wallpapers)

\* the latest call of initSeries that was not a no-op
IsLatestActivation(i) ==
  /\ task[i].kind = "init"
  /\ task[i].pc \notin {"new", "skipped"}
  /\ \A j \in Calls : (j > i /\ task[j].kind = "init") => task[j].pc \in {"new", "skipped"}

\* C34: while the loader started by the latest activation still has a batch
\* to process (it waits for a batch or pauses between two),
\* isBackgroundLoading is true.
C34_BackgroundFlagTracksLoader ==
  \A i \in Calls :
    (IsLatestActivation(i) /\ task[i].pc \in {"batch", "pause"}) => isBackgroundLoading

\* C35: loading is true whenever a call of initSeries is between its start
\* and the merge of its initial window, or a call of loadAllCategories has
\* started its loader and has not returned.
C35_LoadingCoversForeground ==
  \A i \in Calls :
    (\/ task[i].kind = "init" /\ task[i].pc \in Foreground
     \/ task[i].kind = "all" /\ task[i].pc \in {"batch", "pause", "allEnd"})
    => loading

\* ------------------------------------------------------------ termination
\* What the browser does by itself: a pending fetch settles, a timer fires,
\* the continuation of a settled await runs. Calls made by the UI are not
\* among them.
EventLoopStep ==
  \/ DoIndexFetchOk
  \/ DoIndexFetchUndecoded
  \/ DoIndexFetchFail
  \/ DoInitIndexFail
  \/ DoInitWindow
  \/ DoCategoryFetchOk
  \/ DoCategoryFetchFail
  \/ DoInitMerge
  \/ DoInitWindowFail
  \/ DoBatchDone
  \/ DoBatchFail
  \/ DoPauseDone
  \/ DoLoadAllIndexSettled
  \/ DoLoadAllReturn

\* the store with the calls of initSeries and loadAllCategories made by the
\* UI, under the assumption that every fetch settles, every timer fires and
\* every continuation runs
NextFair ==
  \/ EventLoopStep
  \/ DoCallInit
  \/ DoCallLoadAll

SpecFair == Init /\ [][NextFair]_vars /\ WF_vars(EventLoopStep)

Running == Foreground \cup {"batch", "pause", "allEnd"}

\* C36: loading is false at the step where a call of initSeries leaves its
\* initial phase, and from some moment on no call of initSeries or
\* loadAllCategories and no loader is still running, also after a failed
\* batch, and loading and isBackgroundLoading are false.
C36_LoadingTerminates ==
  /\ [][\A i \in Calls :
         (task[i].kind = "init" /\ task[i].pc \in Foreground /\ task'[i].pc \notin Foreground)
         => ~loading']_vars
  /\ <>[](/\ \A i \in Calls : task[i].pc \notin Running
          /\ ~loading
          /\ ~isBackgroundLoading)

\* the loader of an activation has ended right after a failed batch
C36_Witness ==
  /\ last.op = "BatchFail"
  /\ task[last.call].kind = "init"
  /\ task[last.call].pc = "done"
  /\ \A i \in Calls : task[i].pc \notin Running
  /\ ~loading
  /\ ~isBackgroundLoading

\* the calls other than i that have merged a window or run a loader
OtherLoaders(i) ==
  {j \in Calls \ {i} : task[j].pc \in {"batch", "pause", "allEnd", "done", "ready"}}

\* C37: the step of a loader after a rejected batch appends nothing and
\* marks nothing; when no other call has merged or loaded, none of the
\* batch's files is marked loaded and none of its items is in the list; when
\* the caches were never cleared, every category of the batch whose fetch
\* succeeded is in the category cache. A call of loadAllCategories that
\* starts a loader runs it on exactly the categories not marked loaded and
\* fetches, of its first batch, exactly the ones not cached.
C37_FailedBatchRetryable ==
  [][/\ last'.op = "BatchFail" =>
          LET t == task[last'.call]
          IN /\ wallpapers' = wallpapers
             /\ loadedCategories' = loadedCategories
             /\ OtherLoaders(last'.call) = {} =>
                  /\ SlotFiles(t.slots) \cap loadedCategories' = {}
                  /\ \A f \in SlotFiles(t.slots) :
                       Range(CategoryItems(t.series, f)) \cap Range(wallpapers') = {}
             /\ clears = 0 =>
                  \A j \in 1..Len(t.slots) :
                    t.slots[j].st = "ok"
                    => CacheKey(t.series, t.slots[j].file) \in DOMAIN categoryCache'
     /\ (last'.op = "CallLoadAll" /\ task'[last'.call].pc = "batch") =>
          LET t == task'[last'.call]
              cats == IndexCached(last'.arg).categories
          IN /\ t.cats = Unloaded(cats, loadedCategories)
             /\ {c.file : c \in inflight' \ inflight}
                  = {f \in Range(Batch(t.cats, 1)) :
                       CacheKey(last'.arg, f) \notin DOMAIN categoryCache}
             /\ \A c \in inflight' \ inflight : c.owner = last'.call]_vars

\* loadAllCategories has been called after the only batch of the loader
\* failed with one category fetched and one not: it runs on both categories
\* and fetches only the one that is not cached
C37_Witness ==
  /\ last.op = "CallLoadAll"
  /\ last.call = 2
  /\ task[1].kind = "init"
  /\ task[1].pc = "done"
  /\ faults = 1
  /\ task[2].pc = "batch"
  /\ Len(task[2].cats) = 2
  /\ task[2].slots[1].st = "ok"
  /\ task[2].slots[2].st = "pending"
  /\ Cardinality(inflight) = 1
  /\ \A f \in Range(task[2].cats) : f \notin loadedCategories

\* the ids the UI may ask for: every item of every series
WallpaperIds ==
  {<<s, f, n>> : s \in SERIES_CONFIG, f \in AllFiles, n \in 1..ItemsPerCat}

\* C38: for an id first found at position i of the list, getWallpaperIndex
\* is i, getPrevWallpaper is the item before it or null at position 0,
\* getNextWallpaper is the item after it or null at the last position; for
\* an id that is not in the list getWallpaperIndex is -1 and both
\* getPrevWallpaper and getNextWallpaper are null.
C38_NavigationLookups ==
  \A id \in WallpaperIds :
    IF id \in Range(wallpapers)
    THEN LET i == getWallpaperIndex(id)
         IN /\ i \in 0..(Len(wallpapers) - 1)
            /\ At(i) = id
            /\ \A k \in 0..(i - 1) : At(k) # id
            /\ getPrevWallpaper(id) = IF i = 0 THEN NoWallpaper ELSE At(i - 1)
            /\ getNextWallpaper(id) = IF i = Len(wallpapers) - 1
                                      THEN NoWallpaper
                                      ELSE At(i + 1)
    ELSE /\ getWallpaperIndex(id) = -1
         /\ getPrevWallpaper(id) = NoWallpaper
         /\ getNextWallpaper(id) = NoWallpaper

WindowCached(t) ==
  /\ t.index.hasCategories
  /\ \A f \in Range(Slice(t.index.categories, 0, INITIAL_WINDOW)) :
       CacheKey(t.series, f) \in DOMAIN categoryCache

\* C39: initSeries(S, true) resets loading, error, the current series, the
\* loaded set, isBackgroundLoading and the count and leaves both caches as
\* they are; with the manifest of S cached it requests no manifest; with the
\* categories of the initial window cached it requests no category and takes
\* the cached lists; its merge makes the list the concatenation of these
\* lists and writes to no cache.
C39_ForceRefreshKeepsCaches ==
  [][/\ (last'.op = "CallInit" /\ task'[last'.call].force) =>
          /\ UNCHANGED cacheVars
          /\ inflight' = inflight
          /\ loading'
          /\ error' = NoError
          /\ currentLoadedSeries' = last'.arg
          /\ loadedCategories' = {}
          /\ ~isBackgroundLoading'
          /\ initialLoadedCount' = 0
          /\ last'.arg \in DOMAIN seriesIndexCache =>
               /\ task'[last'.call].pc = "indexOk"
               /\ task'[last'.call].index = seriesIndexCache[last'.arg]
     /\ (/\ last'.op = "InitWindow"
         /\ task[last'.call].force
         /\ WindowCached(task[last'.call])) =>
          LET t == task'[last'.call]
          IN /\ UNCHANGED cacheVars
             /\ inflight' = inflight
             /\ t.pc = "window"
             /\ \A j \in 1..Len(t.slots) :
                  /\ t.slots[j].st = "ok"
                  /\ t.slots[j].val = categoryCache[CacheKey(t.series, t.slots[j].file)]
     /\ (last'.op = "InitMerge" /\ task[last'.call].force) =>
          /\ UNCHANGED cacheVars
          /\ wallpapers' = MergeResults(task[last'.call].slots)]_vars

\* a forced activation of the series that is already loaded has taken its
\* whole initial window from the cache
C39_Witness ==
  /\ last.op = "InitWindow"
  /\ last.call = 2
  /\ task[2].force
  /\ task[1].kind = "init"
  /\ task[1].series = task[2].series
  /\ currentLoadedSeries = task[2].series
  /\ task[2].pc = "window"
  /\ Len(task[2].slots) = INITIAL_WINDOW
  /\ AllOk(task[2].slots)
  /\ \A c \in inflight : c.owner # 2
  /\ Len(wallpapers) > 0

\* C40: in the composable of wallpaper.js, at the step where a call of
\* fetchWallpapers returns (on a cache hit, after a load that succeeded or
\* failed, or at once for an unknown series) loading is false.
C40_ComposableLoadingSettles ==
  [][composableFile = "wallpaper.js" =>
       \A i \in 1..Len(calls') :
         (/\ calls'[i].via = "fetchWallpapers"
          /\ calls'[i].pc = "returned"
          /\ (i > Len(calls) \/ calls[i].pc # "returned"))
         => ~composable'.loading]_vars
====
